---- MODULE Spec2Model ----
(***************************************************************************)
(* NAV time-series store and incremental synchronization scheduler of the  *)
(* fund analyzer plugin.                                                   *)
(*                                                                         *)
(*   Spec      the scheduler (NavSyncService): the daily planner tasks,    *)
(*             the intraday loop tasks, manual sync callers, stop() and    *)
(*             ensure_task(), on one asyncio event loop, with the          *)
(*             asyncio.Lock that guards _sync_funds_nav.                   *)
(*                                                                         *)
(* One coroutine runs at a time: `running` names the task whose step is in *)
(* progress; a task gives up the loop only at an await that suspends.      *)
(***************************************************************************)
EXTENDS Integers, Sequences, FiniteSets, TLC

\* ---------------------------------------------------------------- bounds
MaxPlanners == 2      \* planner task objects that may exist at once
MaxIntraday == 2      \* intraday loop task objects that may exist at once
MaxManual == 1        \* concurrent manual sync_position_funds_nav callers
MaxDays == 2          \* calendar days the clock runs through
DayLen == 4           \* instants of one day (the last one ends at midnight)
WinStart == 1         \* intraday window start, as an instant of the day
Interval == 1         \* intraday interval, in instants
PassFunds == 1        \* funds listed for one scheduler-level sync pass
MaxFaults == 1        \* storage read errors injected in one run
MaxBatch == 2         \* records of one upsert_fund_nav_history call
MaxTs == 2            \* readings of the wall clock: 1..MaxTs
MaxCalls == 2         \* calls of the store's API in one run
MaxItems == 2         \* items of a history get_lof_history returns
MaxAdds == 3          \* records of one add_or_merge_positions batch
MaxLedgerCalls == 2   \* calls of the ledger API in one behaviour
MaxClearCmds == 2     \* clear commands received in one behaviour
MaxNow == 6           \* instants of the day a trigger is calculated for
MaxInterval == 3      \* intraday intervals tried, in instants

\* program constant
HOLIDAY_MAX_RETRIES == 3

WinEnd == DayLen - 2
Days == 4 .. (3 + MaxDays)          \* day d is a weekday iff d % 7 < 5 (4 = Friday)
NoDay == 0
NoTime == -1

Planners == {<<"P", k>> : k \in 1..MaxPlanners}
Intradays == {<<"I", k>> : k \in 1..MaxIntraday}
Manuals == {<<"M", k>> : k \in 1..MaxManual}
Stopper == <<"S", 1>>
NoTask == <<"none", 0>>
Tasks == Planners \cup Intradays \cup Manuals \cup {Stopper}

VARIABLES
    day, tod,                \* the wall clock: calendar day and instant of the day
    task,                    \* task id -> the coroutine's position and locals
    running,                 \* the task whose step is in progress, or NoTask
    daily_task,              \* self._daily_task
    intraday_task,           \* self._intraday_task
    intraday_task_day,       \* self._intraday_task_day
    planned_day,             \* self._planned_day
    non_workday_synced_day,  \* self._non_workday_synced_day
    workday_cache,           \* self._workday_cache
    locked,                  \* self._sync_lock._locked
    holder,                  \* the task inside `async with self._sync_lock`
    waiters,                 \* self._sync_lock._waiters
    faults,                  \* storage read errors injected so far
    nwStarted, nwDone,       \* per day: non-workday passes begun / returned
    store,                   \* the SQLite file: funds, partition tables, NAV rows
    nav_partition_table_cache,   \* self._nav_partition_table_cache
    call,                    \* the last call of the store's API and its result
    pass,                    \* one run of _sync_funds_nav: position, locals, stats
    ledger,                  \* the SQLite file: funds, positions, position logs
    lcall,                   \* the last call of the ledger's API and its result
    settle,                  \* a call of _calc_expected_settlement_date
    resolve,                 \* a call of _resolve_settlement_nav
    cmd,                     \* command -> a run of clear_fund_position
    plan                     \* the last planning calculation and its result

schedVars == <<day, tod, task, running, daily_task, intraday_task,
               intraday_task_day, planned_day, non_workday_synced_day,
               workday_cache, locked, holder, waiters, faults, nwStarted,
               nwDone>>

navVars == <<store, nav_partition_table_cache, call>>

ledgerVars == <<ledger, lcall>>

pluginVars == <<settle, resolve, cmd, plan>>

vars == <<schedVars, navVars, pass, ledgerVars, pluginVars>>

\* ---------------------------------------------------------------- helpers
Fresh == [pc |-> "none", cancel |-> FALSE, date |-> NoDay, att |-> 0,
          trig |-> NoTime, left |-> 0, aw |-> NoTask, wake |-> NoDay,
          at |-> "none", reply |-> "none", nap |-> 0]

Finished == [Fresh EXCEPT !.pc = "done"]

Alive(t) == t # NoTask /\ task[t].pc \notin {"none", "done"}

Instant(d, t) == d * DayLen + t
Now == Instant(day, tod)

\* a weekday rule that takes Saturday for a working day
IsWeekdaySix(d) == (d % 7) < 6

IsWeekday(d) == (d % 7) < 5

\* a trigger calculation that does not look at the window's end
CalcNextTriggerUnbounded(now, start, end, interval) ==
    IF now <= start THEN start
    ELSE start + ((now - start + interval - 1) \div interval) * interval

\* a trigger one interval after now, whatever the grid
CalcNextTriggerFixedDelay(now, start, end, interval) ==
    IF now <= start THEN start
    ELSE IF now > end \/ now + interval > end THEN NoTime
    ELSE now + interval

\* _calc_next_intraday_trigger: the next instant of the grid start + k*interval
\* at or after now and not after end; NoTime stands for None.
CalcNextIntradayTrigger(now, start, end, interval) ==
    IF now <= start THEN start
    ELSE IF now > end THEN NoTime
    ELSE LET elapsed == now - start
             steps0 == elapsed \div interval
             steps == IF elapsed % interval # 0 THEN steps0 + 1 ELSE steps0
             next == start + steps * interval
         IN IF next > end THEN NoTime ELSE next

\* asyncio.Lock._wake_up_first
WakeUpFirst(ws) ==
    IF ws = <<>> THEN ws
    ELSE IF ws[1].st = "wait" THEN [ws EXCEPT ![1].st = "woken"]
    ELSE ws

\* asyncio.Lock.acquire, the test of its fast path
LockFreeIgnoringHolder(lk, ws) == \A i \in DOMAIN ws : ws[i].st = "cancelled"
LockFree(lk, ws) == ~lk /\ \A i \in DOMAIN ws : ws[i].st = "cancelled"

WithoutWaiter(ws, t) == SelectSeq(ws, LAMBDA w : w.t # t)

WaiterState(ws, t) ==
    IF \E i \in DOMAIN ws : ws[i].t = t
    THEN (CHOOSE w \in {ws[i] : i \in DOMAIN ws} : w.t = t).st
    ELSE "absent"

\* Task.cancel() on a task that is not done: the request is delivered at the
\* task's next step.  A task suspended in `await <task>` passes the request on
\* to the awaited task and the CancelledError it then receives is the one its
\* own `except asyncio.CancelledError: pass` expects.
RECURSIVE CancelTask(_, _)
CancelTask(tk, t) ==
    IF tk[t].pc \in {"none", "done"} THEN tk
    ELSE IF tk[t].pc \in {"await_it_start", "await_it_stop"}
    THEN IF tk[tk[t].aw].pc = "done" THEN [tk EXCEPT ![t].cancel = TRUE]
         ELSE CancelTask(tk, tk[t].aw)
    ELSE [tk EXCEPT ![t].cancel = TRUE]

CancelWaiter(ws, tk) ==
    [i \in DOMAIN ws |->
        IF ws[i].st = "wait" /\ tk[ws[i].t].cancel
        THEN [ws[i] EXCEPT !.st = "cancelled"] ELSE ws[i]]

Referenced(t) ==
    \/ daily_task = t
    \/ intraday_task = t
    \/ \E u \in Tasks : Alive(u) /\ task[u].aw = t

FreeSlots(S) == {t \in S : task[t].pc \in {"none", "done"} /\ ~Referenced(t)}

LowestFree(S) == CHOOSE t \in FreeSlots(S) : \A u \in FreeSlots(S) : t[2] <= u[2]

clockVars == <<day, tod>>
svcVars == <<daily_task, intraday_task, intraday_task_day, planned_day,
             non_workday_synced_day, workday_cache>>
lockVars == <<locked, holder, waiters>>
ghostVars == <<faults, nwStarted, nwDone>>

\* ------------------------------------------------------------------ Init
SchedInit ==
    /\ day = 4 /\ tod = 0
    /\ task = [t \in Tasks |-> Fresh]
    /\ running = NoTask
    /\ daily_task = NoTask
    /\ intraday_task = NoTask
    /\ intraday_task_day = NoDay
    /\ planned_day = NoDay
    /\ non_workday_synced_day = NoDay
    /\ workday_cache = [d \in Days |-> "none"]
    /\ locked = FALSE /\ holder = NoTask /\ waiters = <<>>
    /\ faults = 0
    /\ nwStarted = [d \in Days |-> 0]
    /\ nwDone = [d \in Days |-> 0]

\* ----------------------------------------------------------------- clock
Tick ==
    /\ running = NoTask
    /\ \/ tod < DayLen - 1 /\ tod' = tod + 1 /\ day' = day
       \/ tod = DayLen - 1 /\ day + 1 \in Days /\ tod' = 0 /\ day' = day + 1
    /\ UNCHANGED <<task, running, svcVars, lockVars, ghostVars>>

\* ----------------------------------------------------------- ensure_task
ensure_task ==
    /\ running = NoTask
    /\ IF Alive(daily_task)
       THEN UNCHANGED <<task, daily_task>>
       ELSE /\ FreeSlots(Planners) # {}
            /\ LET p == LowestFree(Planners) IN
               /\ task' = [task EXCEPT ![p] = [Fresh EXCEPT !.pc = "sleep"]]
               /\ daily_task' = p
    /\ UNCHANGED <<clockVars, running, intraday_task, intraday_task_day,
                   planned_day, non_workday_synced_day, workday_cache,
                   lockVars, ghostVars>>

\* ------------------------------------------------------------------ stop
\* The second half of stop(): cancel and await the daily task, or return.
StopDailyPart(tk) ==
    IF daily_task # NoTask /\ tk[daily_task].pc \notin {"none", "done"}
    THEN [CancelTask(tk, daily_task) EXCEPT
             ![Stopper].pc = "s_await_daily", ![Stopper].aw = daily_task]
    ELSE [tk EXCEPT ![Stopper] = Fresh]

StopCall ==
    /\ running = NoTask
    /\ task[Stopper].pc = "none"
    /\ LET tk == IF Alive(intraday_task)
                 THEN [CancelTask(task, intraday_task) EXCEPT
                          ![Stopper].pc = "s_await_it",
                          ![Stopper].aw = intraday_task]
                 ELSE StopDailyPart(task)
       IN /\ task' = tk
          /\ waiters' = CancelWaiter(waiters, tk)
    /\ UNCHANGED <<clockVars, running, svcVars, locked, holder, ghostVars>>

StopResumeIntraday ==
    /\ running = NoTask
    /\ task[Stopper].pc = "s_await_it"
    /\ task[task[Stopper].aw].pc = "done"
    /\ intraday_task' = NoTask
    /\ intraday_task_day' = NoDay
    /\ LET tk == StopDailyPart(task)
       IN /\ task' = tk
          /\ waiters' = CancelWaiter(waiters, tk)
    /\ UNCHANGED <<clockVars, running, daily_task, planned_day,
                   non_workday_synced_day, workday_cache, locked, holder,
                   ghostVars>>

StopResumeDaily ==
    /\ running = NoTask
    /\ task[Stopper].pc = "s_await_daily"
    /\ task[task[Stopper].aw].pc = "done"
    /\ daily_task' = NoTask
    /\ task' = [task EXCEPT ![Stopper] = Fresh]
    /\ UNCHANGED <<clockVars, running, intraday_task, intraday_task_day,
                   planned_day, non_workday_synced_day, workday_cache,
                   lockVars, ghostVars>>

\* ------------------------------------------------- the planner: _daily_loop
\* `await asyncio.sleep(wait_seconds)` has run out.  wait_seconds is the whole
\* number of seconds to the next midnight (at least 60), so the sleep may end
\* in the last instant of the day it began in; after a failed plan it is 60.
TimerDue(p) ==
    \/ task[p].wake = NoDay
    \/ day > task[p].wake
    \/ day = task[p].wake /\ tod = DayLen - 1

\* The planner goes back to sleep until the next day.
PlanReturns(tk, p) ==
    [tk EXCEPT ![p] = [Fresh EXCEPT !.pc = "sleep", !.wake = day]]

\* _daily_loop wakes and calls _plan_today, up to the first await.
PlannerWake(p) ==
    /\ running = NoTask
    /\ task[p].pc = "sleep" /\ ~task[p].cancel
    /\ TimerDue(p)
    /\ IF planned_day = day
       THEN /\ task' = PlanReturns(task, p)
            /\ UNCHANGED <<planned_day, workday_cache>>
       ELSE /\ planned_day' = day
            /\ workday_cache' = [workday_cache EXCEPT ![day] = "none"]
            /\ task' = [task EXCEPT ![p] =
                          [Fresh EXCEPT !.pc = "classify", !.date = day, !.att = 1]]
    /\ UNCHANGED <<clockVars, running, daily_task, intraday_task,
                   intraday_task_day, non_workday_synced_day, lockVars, ghostVars>>

\* _is_workday: the holiday API answers (workday or holiday) or fails; the last
\* failure falls back to the weekday rule.  `reply` is the outcome of the
\* attempt, `nap` the argument of the asyncio.sleep that follows a failure;
\* both are locals of the call and are gone when the planner moves on.
PlannerClassify(p) ==
    /\ running = NoTask
    /\ task[p].pc = "classify" /\ ~task[p].cancel
    /\ \E answer \in {"workday", "holiday", "fail"} :
         LET retry == answer = "fail" /\ task[p].att < HOLIDAY_MAX_RETRIES
             is_workday == IF answer = "fail" THEN IsWeekday(task[p].date)
                           ELSE answer = "workday"
         IN IF retry
            THEN /\ task' = [task EXCEPT ![p].pc = "backoff",
                                          ![p].reply = answer,
                                          ![p].nap = task[p].att]
                 /\ UNCHANGED <<running, workday_cache>>
            ELSE /\ workday_cache' = [workday_cache EXCEPT ![task[p].date] =
                                        IF is_workday THEN "workday" ELSE "holiday"]
                 /\ task' = [task EXCEPT ![p].pc =
                                IF is_workday THEN "start_it" ELSE "stop_it",
                             ![p].att = 0, ![p].reply = answer]
                 /\ running' = p
    /\ UNCHANGED <<clockVars, daily_task, intraday_task, intraday_task_day,
                   planned_day, non_workday_synced_day, lockVars, ghostVars>>

\* `await asyncio.sleep(attempt)` between two attempts has run out.
PlannerBackoff(p) ==
    /\ running = NoTask
    /\ task[p].pc = "backoff" /\ ~task[p].cancel
    /\ task' = [task EXCEPT ![p].pc = "classify", ![p].att = task[p].att + 1,
                            ![p].reply = "none", ![p].nap = 0]
    /\ UNCHANGED <<clockVars, running, svcVars, lockVars, ghostVars>>

\* loop.create_task(self._intraday_loop(date_text))
NewIntraday(tk, i, d) == [tk EXCEPT ![i] = [Fresh EXCEPT !.pc = "it_top", !.date = d]]

\* _start_intraday_task, up to its await or to its end.
PlannerStartIntraday(p) ==
    /\ running = p
    /\ task[p].pc = "start_it"
    /\ IF Alive(intraday_task) /\ intraday_task_day = task[p].date
       THEN /\ task' = PlanReturns(task, p)
            /\ running' = NoTask
            /\ UNCHANGED <<intraday_task, intraday_task_day, waiters>>
       ELSE IF Alive(intraday_task)
       THEN /\ LET tk == CancelTask(task, intraday_task)
               IN /\ task' = [tk EXCEPT ![p].pc = "await_it_start",
                                        ![p].aw = intraday_task,
                                        ![p].reply = "none"]
                  /\ waiters' = CancelWaiter(waiters, tk)
            /\ running' = NoTask
            /\ UNCHANGED <<intraday_task, intraday_task_day>>
       ELSE /\ FreeSlots(Intradays) # {}
            /\ LET i == LowestFree(Intradays)
               IN /\ task' = PlanReturns(NewIntraday(task, i, task[p].date), p)
                  /\ intraday_task' = i
            /\ intraday_task_day' = task[p].date
            /\ running' = NoTask
            /\ UNCHANGED waiters
    /\ UNCHANGED <<clockVars, daily_task, planned_day, non_workday_synced_day,
                   workday_cache, locked, holder, ghostVars>>

\* _start_intraday_task after `await self._intraday_task`: the CancelledError
\* that ends the await is passed over and the new loop is created.
PlannerAwaitStartResume(p) ==
    /\ running = NoTask
    /\ task[p].pc = "await_it_start"
    /\ task[task[p].aw].pc = "done"
    /\ LET tk == [task EXCEPT ![p].aw = NoTask]
           free == {t \in Intradays : tk[t].pc \in {"none", "done"}
                        /\ daily_task # t /\ intraday_task # t
                        /\ \A u \in Tasks : tk[u].pc \in {"none", "done"} \/ tk[u].aw # t}
       IN /\ free # {}
          /\ LET i == CHOOSE t \in free : \A u \in free : t[2] <= u[2]
             IN /\ task' = PlanReturns(NewIntraday(tk, i, task[p].date), p)
                /\ intraday_task' = i
    /\ intraday_task_day' = task[p].date
    /\ UNCHANGED <<clockVars, running, daily_task, planned_day,
                   non_workday_synced_day, workday_cache, lockVars, ghostVars>>

\* _stop_intraday_task, up to its await or to its end.
PlannerStopIntraday(p) ==
    /\ running = p
    /\ task[p].pc = "stop_it"
    /\ IF Alive(intraday_task)
       THEN /\ LET tk == CancelTask(task, intraday_task)
               IN /\ task' = [tk EXCEPT ![p].pc = "await_it_stop",
                                        ![p].aw = intraday_task,
                                        ![p].reply = "none"]
                  /\ waiters' = CancelWaiter(waiters, tk)
            /\ running' = NoTask
            /\ UNCHANGED <<intraday_task, intraday_task_day>>
       ELSE /\ intraday_task' = NoTask
            /\ intraday_task_day' = NoDay
            /\ task' = [task EXCEPT ![p].pc = "nw_sync", ![p].reply = "none"]
            /\ UNCHANGED <<running, waiters>>
    /\ UNCHANGED <<clockVars, daily_task, planned_day, non_workday_synced_day,
                   workday_cache, locked, holder, ghostVars>>

PlannerAwaitStopResume(p) ==
    /\ running = NoTask
    /\ task[p].pc = "await_it_stop"
    /\ task[task[p].aw].pc = "done"
    /\ intraday_task' = NoTask
    /\ intraday_task_day' = NoDay
    /\ task' = [task EXCEPT ![p].pc = "nw_sync", ![p].aw = NoTask,
                            ![p].cancel = FALSE]
    /\ running' = p
    /\ UNCHANGED <<clockVars, daily_task, planned_day, non_workday_synced_day,
                   workday_cache, lockVars, ghostVars>>

\* _sync_for_non_workday, up to the call of sync_registered_funds_nav.
PlannerNonWorkdaySync(p) ==
    /\ running = p
    /\ task[p].pc = "nw_sync"
    /\ IF non_workday_synced_day = task[p].date
       THEN /\ task' = PlanReturns(task, p)
            /\ running' = NoTask
       ELSE /\ task' = [task EXCEPT ![p].pc = "sync_call"]
            /\ UNCHANGED running
    /\ UNCHANGED <<clockVars, svcVars, lockVars, ghostVars>>

\* _sync_for_non_workday after the pass returned its statistics.
PlannerSyncOk(p) ==
    /\ running = p
    /\ task[p].pc = "sync_ok"
    /\ non_workday_synced_day' = task[p].date
    /\ nwDone' = [nwDone EXCEPT ![task[p].date] = @ + 1]
    /\ task' = PlanReturns(task, p)
    /\ running' = NoTask
    /\ UNCHANGED <<clockVars, daily_task, intraday_task, intraday_task_day,
                   planned_day, workday_cache, lockVars, faults, nwStarted>>

\* _daily_loop's `except Exception`: the plan is forgotten and retried in 60 s.
PlannerSyncErr(p) ==
    /\ running = p
    /\ task[p].pc = "sync_err"
    /\ planned_day' = NoDay
    /\ task' = [task EXCEPT ![p] = [Fresh EXCEPT !.pc = "sleep"]]
    /\ running' = NoTask
    /\ UNCHANGED <<clockVars, daily_task, intraday_task, intraday_task_day,
                   non_workday_synced_day, workday_cache, lockVars, ghostVars>>

\* ------------------------------------------------------- _sync_funds_nav
IsPlanner(t) == t \in Planners

\* The pass begins: the body of `async with self._sync_lock` is entered.
EnterBody(tk, t) == [tk EXCEPT ![t].pc = "body", ![t].left = PassFunds]

CountStart(t) ==
    IF IsPlanner(t) THEN [nwStarted EXCEPT ![task[t].date] = @ + 1] ELSE nwStarted

\* sync_registered_funds_nav / sync_position_funds_nav: the funds are listed
\* (a storage read, which may raise), then `async with self._sync_lock`.
SyncCall(t) ==
    /\ running = t
    /\ task[t].pc = "sync_call"
    /\ \/ /\ faults < MaxFaults
          /\ faults' = faults + 1
          /\ task' = [task EXCEPT ![t].pc = "sync_err"]
          /\ UNCHANGED <<running, lockVars, nwStarted>>
       \/ /\ LockFree(locked, waiters)
          /\ locked' = TRUE /\ holder' = t
          /\ task' = EnterBody(task, t)
          /\ nwStarted' = CountStart(t)
          /\ UNCHANGED <<running, waiters, faults>>
       \/ /\ ~LockFree(locked, waiters)
          /\ waiters' = Append(waiters, [t |-> t, st |-> "wait"])
          /\ task' = [task EXCEPT ![t].pc = "lock_wait"]
          /\ running' = NoTask
          /\ UNCHANGED <<locked, holder, faults, nwStarted>>
    /\ UNCHANGED <<clockVars, svcVars, nwDone>>

\* Lock.acquire after `await fut`: the waiter was woken by a release.
LockGranted(t) ==
    /\ running = NoTask
    /\ task[t].pc = "lock_wait" /\ ~task[t].cancel
    /\ WaiterState(waiters, t) = "woken"
    /\ waiters' = WithoutWaiter(waiters, t)
    /\ locked' = TRUE /\ holder' = t
    /\ task' = EnterBody(task, t)
    /\ nwStarted' = CountStart(t)
    /\ running' = t
    /\ UNCHANGED <<clockVars, svcVars, faults, nwDone>>

\* The loop over the funds: get_latest_nav_date (a storage read outside the
\* try, which may raise) and the await of get_lof_history; after the last
\* fund the lock is released and the statistics are returned.
PassNext(t) ==
    /\ running = t
    /\ task[t].pc = "body"
    /\ \/ /\ task[t].left = 0
          /\ locked' = FALSE /\ holder' = NoTask
          /\ waiters' = WakeUpFirst(waiters)
          /\ task' = [task EXCEPT ![t].pc = "sync_ok"]
          /\ UNCHANGED <<running, faults>>
       \/ /\ task[t].left > 0
          /\ task' = [task EXCEPT ![t].pc = "fetch"]
          /\ running' = NoTask
          /\ UNCHANGED <<lockVars, faults>>
       \/ /\ task[t].left > 0
          /\ faults < MaxFaults
          /\ faults' = faults + 1
          /\ locked' = FALSE /\ holder' = NoTask
          /\ waiters' = WakeUpFirst(waiters)
          /\ task' = [task EXCEPT ![t].pc = "sync_err", ![t].left = 0]
          /\ UNCHANGED running
    /\ UNCHANGED <<clockVars, svcVars, nwStarted, nwDone>>

\* get_lof_history has returned; whatever it returned, and whatever the upsert
\* does with it, is handled inside the pass and the loop goes on.
FetchReturn(t) ==
    /\ running = NoTask
    /\ task[t].pc = "fetch" /\ ~task[t].cancel
    /\ task' = [task EXCEPT ![t].pc = "body", ![t].left = task[t].left - 1]
    /\ running' = t
    /\ UNCHANGED <<clockVars, svcVars, lockVars, ghostVars>>

\* ---------------------------------------------- the intraday loop task
\* One turn of `while True` up to the sleep or to the sync call.
IntradayTop(i) ==
    /\ task[i].pc = "it_top" /\ ~task[i].cancel
    /\ running \in {NoTask, i}
    /\ LET start == Instant(task[i].date, WinStart)
           end == Instant(task[i].date, WinEnd)
           next == CalcNextIntradayTrigger(Now, start, end, Interval)
       IN IF day # task[i].date \/ next = NoTime
          THEN /\ task' = [task EXCEPT ![i] = Finished]
               /\ running' = NoTask
          ELSE IF next > Now
          THEN /\ task' = [task EXCEPT ![i].pc = "it_sleep", ![i].trig = next]
               /\ running' = NoTask
          ELSE /\ task' = [task EXCEPT ![i].pc = "sync_call"]
               /\ running' = i
    /\ UNCHANGED <<clockVars, svcVars, lockVars, ghostVars>>

\* `await asyncio.sleep(sleep_seconds)` has run out.
IntradayWake(i) ==
    /\ running = NoTask
    /\ task[i].pc = "it_sleep" /\ ~task[i].cancel
    /\ Now >= task[i].trig
    /\ IF day # task[i].date
       THEN /\ task' = [task EXCEPT ![i] = Finished]
            /\ UNCHANGED running
       ELSE /\ task' = [task EXCEPT ![i].pc = "sync_call", ![i].trig = NoTime]
            /\ running' = i
    /\ UNCHANGED <<clockVars, svcVars, lockVars, ghostVars>>

\* The pass returned or raised: `except Exception` logs, the loop goes on.
IntradaySyncReturn(i) ==
    /\ running = i
    /\ task[i].pc \in {"sync_ok", "sync_err"}
    /\ task' = [task EXCEPT ![i].pc = "it_top"]
    /\ UNCHANGED <<clockVars, running, svcVars, lockVars, ghostVars>>

\* ------------------------------------------------- manual sync callers
ManualCall(m) ==
    /\ running = NoTask
    /\ task[m].pc = "none"
    /\ task' = [task EXCEPT ![m].pc = "sync_call"]
    /\ running' = m
    /\ UNCHANGED <<clockVars, svcVars, lockVars, ghostVars>>

ManualSyncReturn(m) ==
    /\ running = m
    /\ task[m].pc \in {"sync_ok", "sync_err"}
    /\ task' = [task EXCEPT ![m] = Fresh]
    /\ running' = NoTask
    /\ UNCHANGED <<clockVars, svcVars, lockVars, ghostVars>>

\* The positions of a pass that lie inside `async with self._sync_lock`.
UnderLockNotAwaiting(pc) == pc = "body"
UnderLock(pc) == pc \in {"body", "fetch"}

\* --------------------------------------------- delivery of a cancellation
\* CancelledError is raised at the await the task is suspended in.  Waiting
\* for the lock: Lock.acquire removes the waiter and, the lock not being
\* held, wakes the next one.  Inside the pass: `async with` releases the
\* lock.  The loops log and re-raise: the task is done.
TaskCancelled(t) ==
    /\ running = NoTask
    /\ task[t].cancel
    /\ task[t].pc \in {"sleep", "classify", "backoff", "lock_wait", "fetch",
                       "it_top", "it_sleep"}
    /\ IF task[t].pc = "lock_wait"
       THEN /\ waiters' = IF locked THEN WithoutWaiter(waiters, t)
                          ELSE WakeUpFirst(WithoutWaiter(waiters, t))
            /\ UNCHANGED <<locked, holder>>
       ELSE IF UnderLock(task[t].pc)
       THEN /\ locked' = FALSE /\ holder' = NoTask
            /\ waiters' = WakeUpFirst(waiters)
       ELSE UNCHANGED lockVars
    /\ task' = [task EXCEPT ![t] = [Finished EXCEPT !.at = task[t].pc]]
    /\ UNCHANGED <<clockVars, running, svcVars, ghostVars>>

\* ------------------------------------------------------------------ Next
\* a step of the scheduler calls nothing of the store API and is no turn of
\* the pass told step by step below
StoreIdle == UNCHANGED <<navVars, pass, ledgerVars, pluginVars>>

Next ==
    \/ Tick /\ StoreIdle
    \/ ensure_task /\ StoreIdle
    \/ StopCall /\ StoreIdle
    \/ StopResumeIntraday /\ StoreIdle
    \/ StopResumeDaily /\ StoreIdle
    \/ \E p \in Planners : PlannerWake(p) /\ StoreIdle
    \/ \E p \in Planners : PlannerClassify(p) /\ StoreIdle
    \/ \E p \in Planners : PlannerBackoff(p) /\ StoreIdle
    \/ \E p \in Planners : PlannerStartIntraday(p) /\ StoreIdle
    \/ \E p \in Planners : PlannerAwaitStartResume(p) /\ StoreIdle
    \/ \E p \in Planners : PlannerStopIntraday(p) /\ StoreIdle
    \/ \E p \in Planners : PlannerAwaitStopResume(p) /\ StoreIdle
    \/ \E p \in Planners : PlannerNonWorkdaySync(p) /\ StoreIdle
    \/ \E p \in Planners : PlannerSyncOk(p) /\ StoreIdle
    \/ \E p \in Planners : PlannerSyncErr(p) /\ StoreIdle
    \/ \E t \in Tasks : SyncCall(t) /\ StoreIdle
    \/ \E t \in Tasks : LockGranted(t) /\ StoreIdle
    \/ \E t \in Tasks : PassNext(t) /\ StoreIdle
    \/ \E t \in Tasks : FetchReturn(t) /\ StoreIdle
    \/ \E i \in Intradays : IntradayTop(i) /\ StoreIdle
    \/ \E i \in Intradays : IntradayWake(i) /\ StoreIdle
    \/ \E i \in Intradays : IntradaySyncReturn(i) /\ StoreIdle
    \/ \E m \in Manuals : ManualCall(m) /\ StoreIdle
    \/ \E m \in Manuals : ManualSyncReturn(m) /\ StoreIdle
    \/ \E t \in Tasks : TaskCancelled(t) /\ StoreIdle


\* ============================================================ NAV store
\* A date text is written as the characters that follow the year and its
\* dash ("2024-"): a digit stands for itself, Dash for "-", Blank for " " and
\* Colon for ":", numbered in the order of the characters.  <<0,1,Dash,0,5>>
\* is "2024-01-05".
Dash == -1
Blank == -2
Colon == 10
YearDigits == 5          \* the length of "2024-"
DateWidth == 10          \* text[:10]

Digit(c) == c \in 0..9

Min(a, b) == IF a < b THEN a ELSE b
Max(a, b) == IF a > b THEN a ELSE b

\* str.strip() of the tail of a text
RECURSIVE Strip(_)
Strip(t) ==
    IF t # <<>> /\ t[Len(t)] = Blank THEN Strip(SubSeq(t, 1, Len(t) - 1)) ELSE t

\* the comparison of two texts, as Python and SQLite compare them
RECURSIVE TextLess(_, _)
TextLess(a, b) ==
    IF b = <<>> THEN FALSE
    ELSE IF a = <<>> THEN TRUE
    ELSE IF a[1] # b[1] THEN a[1] < b[1]
    ELSE TextLess(Tail(a), Tail(b))

TextLeq(a, b) == a = b \/ TextLess(a, b)

\* strptime's %m: 1[0-2] | 0[1-9] | [1-9]; 0 if the text is none of them
MonthNumber(t) ==
    IF Len(t) = 1 /\ t[1] \in 1..9 THEN t[1]
    ELSE IF Len(t) = 2 /\ t[1] = 0 /\ t[2] \in 1..9 THEN t[2]
    ELSE IF Len(t) = 2 /\ t[1] = 1 /\ t[2] \in 0..2 THEN 10 + t[2]
    ELSE 0

\* strptime's %d: 3[01] | [12]\d | 0[1-9] | [1-9] | " "[1-9]
DayNumber(t) ==
    IF Len(t) = 1 /\ t[1] \in 1..9 THEN t[1]
    ELSE IF Len(t) = 2 /\ t[1] \in {0, Blank} /\ t[2] \in 1..9 THEN t[2]
    ELSE IF Len(t) = 2 /\ t[1] \in 1..2 /\ Digit(t[2]) THEN 10 * t[1] + t[2]
    ELSE IF Len(t) = 2 /\ t[1] = 3 /\ t[2] \in 0..1 THEN 30 + t[2]
    ELSE 0

\* the days of a month of 2024
DaysInMonth(m) ==
    IF m = 2 THEN 29 ELSE IF m \in {4, 6, 9, 11} THEN 30 ELSE 31

\* datetime.strptime(text, "%Y-%m-%d"): <<month, day>>, or <<0, 0>> for a
\* ValueError
Strptime(t) ==
    LET cuts == {k \in 2..Min(3, Len(t)) : t[k] = Dash} IN
    IF cuts = {} THEN <<0, 0>>
    ELSE LET k == CHOOSE c \in cuts : \A e \in cuts : c <= e
             m == MonthNumber(SubSeq(t, 1, k - 1))
             d == DayNumber(SubSeq(t, k + 1, Len(t)))
         IN IF m = 0 \/ d = 0 \/ d > DaysInMonth(m) THEN <<0, 0>> ELSE <<m, d>>

\* DataHandler._normalize_nav_date for a text: the text cut to ten characters
\* when strptime accepts it; "empty" and "format" name the two ValueErrors.
NormalizeNavDate(raw) ==
    LET text == Strip(raw)
        cut == SubSeq(text, 1, Min(Len(text), DateWidth - YearDigits))
    IN IF text = <<>> THEN [err |-> "empty", text |-> <<>>]
       ELSE IF Strptime(cut) = <<0, 0>> THEN [err |-> "format", text |-> <<>>]
       ELSE [err |-> "", text |-> cut]

\* _build_nav_partition_table_name: the table 2024_MM_fund_nav_history is
\* named by its month; Legacy names the table fund_nav_history.
Legacy == 0
BuildNavPartitionTableName(text) == Strptime(text)[1]

\* ---------------------------------------------------------------- values
\* What a caller may pass where a number is expected.
Num(n) == [k |-> "num", v |-> n]
NaN == [k |-> "nan", v |-> 0]
Word == [k |-> "word", v |-> 0]        \* a text that is no number, "abc"
Dashes == [k |-> "dashes", v |-> 0]    \* "" or "--"
None == [k |-> "none", v |-> 0]

\* float(value): raises for None and for a text that is no number
FloatRaises(x) == x.k \in {"word", "dashes", "none"}

\* DataHandler._as_positive_float: NaN is not <= 0 and is returned
AsPositiveFloat(x) ==
    IF FloatRaises(x) THEN [err |-> "number", nan |-> FALSE, v |-> 0]
    ELSE IF x.k = "num" /\ x.v <= 0 THEN [err |-> "positive", nan |-> FALSE, v |-> 0]
    ELSE [err |-> "", nan |-> x.k = "nan", v |-> x.v]

\* accum_nav / change_rate as bound to the INSERT: <<>> is NULL.  None, ""
\* and "--" give None; _safe_float gives 0.0 for a text that is no number;
\* sqlite3 binds NaN as NULL.
OptionalFloat(x) ==
    IF x.k \in {"none", "dashes"} THEN <<>>
    ELSE IF x.k = "word" THEN <<0>>
    ELSE IF x.k = "nan" THEN <<>>
    ELSE <<x.v>>

\* DataHandler._normalize_fund_code on the codes of the model
NormalizeFundCode(c) ==
    IF c \in {"1", "01"} THEN "000001" ELSE IF c = "2" THEN "000002" ELSE c

\* ----------------------------------------------------------------- tables
EmptyDb == [funds |-> {}, tables |-> {}, rows |-> {}]

FundRow(db, code) == CHOOSE f \in db.funds : f.code = code
HasFund(db, code) == \E f \in db.funds : f.code = code

\* _ensure_fund_tx: INSERT ... ON CONFLICT(fund_code) DO UPDATE
EnsureFundTx(db, code, name, ts) ==
    IF HasFund(db, code)
    THEN LET old == FundRow(db, code)
             new == [old EXCEPT !.name = IF name # "" THEN name ELSE old.name,
                                !.updated_at = ts]
         IN [db EXCEPT !.funds = (db.funds \ {old}) \cup {new}]
    ELSE [db EXCEPT !.funds = db.funds \cup
             {[code |-> code, name |-> name, created_at |-> ts, updated_at |-> ts]}]

\* _ensure_nav_partition_table_tx: CREATE TABLE IF NOT EXISTS
EnsureNavPartitionTableTx(db, tbl) == [db EXCEPT !.tables = db.tables \cup {tbl}]

HasRow(db, tbl, code, text) ==
    \E r \in db.rows : r.tbl = tbl /\ r.code = code /\ r.nav_date = text

TheRow(db, tbl, code, text) ==
    CHOOSE r \in db.rows : r.tbl = tbl /\ r.code = code /\ r.nav_date = text

\* One row as upsert_fund_nav_history prepares it, validated: err names the
\* ValueError, if any.
Prepare(record) ==
    LET date == NormalizeNavDate(record.nav_date)
        unit == AsPositiveFloat(record.unit_nav)
    IN [err |-> IF date.err # "" THEN date.err ELSE unit.err,
        nav_date |-> date.text,
        tbl |-> IF date.err = "" THEN BuildNavPartitionTableName(date.text) ELSE Legacy,
        nan |-> unit.nan,
        unit_nav |-> unit.v,
        accum_nav |-> OptionalFloat(record.accum_nav),
        change_rate |-> OptionalFloat(record.change_rate)]

\* INSERT OR REPLACE INTO <table> ...
InsertOrReplace(db, code, p, source, ts) ==
    LET others == {r \in db.rows :
                      ~(r.tbl = p.tbl /\ r.code = code /\ r.nav_date = p.nav_date)}
    IN [db EXCEPT !.rows = others \cup
           {[tbl |-> p.tbl, code |-> code, nav_date |-> p.nav_date,
             unit_nav |-> p.unit_nav, accum_nav |-> p.accum_nav,
             change_rate |-> p.change_rate, source |-> source,
             created_at |-> ts, updated_at |-> ts]}]

\* INSERT INTO <table> ... ON CONFLICT(fund_id, nav_date) DO UPDATE SET ...
InsertOrUpdate(db, code, p, source, ts) ==
    IF HasRow(db, p.tbl, code, p.nav_date)
    THEN LET old == TheRow(db, p.tbl, code, p.nav_date)
             new == [old EXCEPT !.unit_nav = p.unit_nav,
                                !.accum_nav = p.accum_nav,
                                !.change_rate = p.change_rate,
                                !.source = IF source # "" THEN source ELSE old.source,
                                !.updated_at = ts]
         IN [db EXCEPT !.rows = (db.rows \ {old}) \cup {new}]
    ELSE [db EXCEPT !.rows = db.rows \cup
             {[tbl |-> p.tbl, code |-> code, nav_date |-> p.nav_date,
               unit_nav |-> p.unit_nav, accum_nav |-> p.accum_nav,
               change_rate |-> p.change_rate, source |-> source,
               created_at |-> ts, updated_at |-> ts]}]

\* ------------------------------------------------- upsert_fund_nav_history
\* self._nav_partition_table_cache: None, or the tables listed last
NoCache == [set |-> FALSE, tables |-> {}]

\* `prepared`: the tables in the order of their first record
RECURSIVE FirstSeen(_, _)
FirstSeen(rows, seen) ==
    IF rows = <<>> THEN <<>>
    ELSE IF Head(rows).tbl \in seen THEN FirstSeen(Tail(rows), seen)
    ELSE <<Head(rows).tbl>> \o FirstSeen(Tail(rows), seen \cup {Head(rows).tbl})

\* the rows in the order the INSERTs are executed: table by table
RECURSIVE ByTable(_, _)
ByTable(rows, tbls) ==
    IF tbls = <<>> THEN <<>>
    ELSE SelectSeq(rows, LAMBDA p : p.tbl = Head(tbls)) \o ByTable(rows, Tail(tbls))

\* The loop over prepared.items() inside the transaction.  A NaN unit_nav is
\* bound as NULL and fails the NOT NULL constraint: IntegrityError.
RECURSIVE Execute(_, _, _, _, _)
Execute(db, code, rows, source, ts) ==
    IF rows = <<>> THEN [ok |-> TRUE, db |-> db]
    ELSE LET p == Head(rows)
             d1 == EnsureNavPartitionTableTx(db, p.tbl)
         IN IF p.nan THEN [ok |-> FALSE, db |-> d1]
            ELSE Execute(InsertOrUpdate(d1, code, p, source, ts), code,
                         Tail(rows), source, ts)

\* The records are validated while they are prepared, one after the other,
\* and a record is written as soon as it is prepared.
RECURSIVE ExecuteUnprepared(_, _, _, _, _)
ExecuteUnprepared(db, code, rows, source, ts) ==
    IF rows = <<>> THEN [ok |-> TRUE, db |-> db]
    ELSE LET p == Head(rows)
             d1 == EnsureNavPartitionTableTx(db, p.tbl)
         IN IF p.err # "" \/ p.nan THEN [ok |-> FALSE, db |-> db]
            ELSE ExecuteUnprepared(InsertOrUpdate(d1, code, p, source, ts), code,
                                   Tail(rows), source, ts)

\* upsert_fund_nav_history with the transaction left open on an error
UpsertNoRollback(db, cache, fund_code, nav_records, fund_name, source, now_ts, fund_ts) ==
    LET code == NormalizeFundCode(fund_code)
        prepared == [i \in DOMAIN nav_records |-> Prepare(nav_records[i])]
        run == ExecuteUnprepared(EnsureFundTx(db, code, fund_name, fund_ts), code,
                                 prepared, source, now_ts)
    IN IF code = "" THEN [raised |-> "ValueError", db |-> db, cache |-> cache, affected |-> 0]
       ELSE IF nav_records = <<>>
       THEN [raised |-> "", db |-> db, cache |-> cache, affected |-> 0]
       ELSE [raised |-> IF run.ok THEN "" ELSE "ValueError", db |-> run.db,
             cache |-> NoCache, affected |-> IF run.ok THEN Len(prepared) ELSE 0]

\* upsert_fund_nav_history: now_ts and fund_ts are the two readings of
\* time.time(), in the method and in _ensure_fund_tx.
Upsert(db, cache, fund_code, nav_records, fund_name, source, now_ts, fund_ts) ==
    LET code == NormalizeFundCode(fund_code)
        prepared == [i \in DOMAIN nav_records |-> Prepare(nav_records[i])]
        rows == ByTable(prepared, FirstSeen(prepared, {}))
        run == Execute(EnsureFundTx(db, code, fund_name, fund_ts), code, rows,
                       source, now_ts)
    IN IF code = "" THEN [raised |-> "ValueError", db |-> db, cache |-> cache, affected |-> 0]
       ELSE IF nav_records = <<>>
       THEN [raised |-> "", db |-> db, cache |-> cache, affected |-> 0]
       ELSE IF \E i \in DOMAIN prepared : prepared[i].err # ""
       THEN [raised |-> "ValueError", db |-> db, cache |-> cache, affected |-> 0]
       ELSE IF ~run.ok
       THEN [raised |-> "IntegrityError", db |-> db, cache |-> NoCache, affected |-> 0]
       ELSE [raised |-> "", db |-> run.db, cache |-> NoCache,
             affected |-> Len(prepared)]

\* --------------------------------------------------- list_fund_nav_history
DEFAULT_LIMIT == 120
MAX_LIMIT == 2000

\* _list_nav_partition_tables_tx: the cached list, or sqlite_master
ListNavPartitionTablesTx(db, cache) == IF cache.set THEN cache.tables ELSE db.tables

RECURSIVE Descending(_)
Descending(S) ==
    IF S = {} THEN <<>>
    ELSE LET m == CHOOSE x \in S : \A y \in S : y <= x
         IN <<m>> \o Descending(S \ {m})

\* _resolve_nav_tables_tx(include_legacy=True, order_desc=True); start and end
\* are normalized texts, <<>> for None
ResolveNavTablesTx(tables, start, end) ==
    LET kept == {t \in tables :
                    /\ start = <<>> \/ t >= Strptime(start)[1]
                    /\ end = <<>> \/ t <= Strptime(end)[1]}
    IN Descending(kept) \o <<Legacy>>

\* the rows of a set in the order of ORDER BY nav_date DESC
RECURSIVE ByDateDesc(_)
ByDateDesc(S) ==
    IF S = {} THEN <<>>
    ELSE LET r == CHOOSE x \in S : \A y \in S : TextLeq(y.nav_date, x.nav_date)
         IN <<r>> \o ByDateDesc(S \ {r})

\* SELECT ... FROM <table> h JOIN funds f ... ORDER BY h.nav_date DESC LIMIT ?
SelectNav(db, tbl, code, start, end, limit) ==
    LET hit == {r \in db.rows :
                   /\ r.tbl = tbl /\ r.code = code
                   /\ start = <<>> \/ TextLeq(start, r.nav_date)
                   /\ end = <<>> \/ TextLeq(r.nav_date, end)}
        sorted == ByDateDesc(hit)
    IN SubSeq(sorted, 1, Min(limit, Len(sorted)))

Dates(rows) == {rows[i].nav_date : i \in DOMAIN rows}

\* the loop over nav_tables where the row seen last of a date stays
RECURSIVE MergeLastSeen(_, _, _, _, _, _)
MergeLastSeen(db, tbls, code, start, end, limit) ==
    IF tbls = <<>> THEN <<>>
    ELSE LET rest == MergeLastSeen(db, Tail(tbls), code, start, end, limit)
             rows == SelectNav(db, Head(tbls), code, start, end, limit)
         IN SelectSeq(rows, LAMBDA r : r.nav_date \notin Dates(rest)) \o rest

\* the loop over nav_tables with seen_dates: the first row seen of a date stays
RECURSIVE Merge(_, _, _, _, _, _)
Merge(db, tbls, code, start, end, limit) ==
    IF tbls = <<>> THEN <<>>
    ELSE LET rest == Merge(db, SubSeq(tbls, 1, Len(tbls) - 1), code, start, end, limit)
             rows == SelectNav(db, tbls[Len(tbls)], code, start, end, limit)
         IN rest \o SelectSeq(rows, LAMBDA r : r.nav_date \notin Dates(rest))

\* the key of the final sort is greater for a than for b
KeyGreater(a, b) ==
    \/ TextLess(b.nav_date, a.nav_date)
    \/ a.nav_date = b.nav_date /\ a.updated_at > b.updated_at

\* sorted(merged_rows, key=(nav_date, updated_at), reverse=True)
RECURSIVE SortedReverse(_)
SortedReverse(rows) ==
    IF rows = <<>> THEN <<>>
    ELSE LET k == CHOOSE i \in DOMAIN rows :
                    /\ \A j \in DOMAIN rows : ~KeyGreater(rows[j], rows[i])
                    /\ \A j \in 1..(i - 1) : KeyGreater(rows[i], rows[j])
         IN <<rows[k]>> \o
            SortedReverse(SubSeq(rows, 1, k - 1) \o SubSeq(rows, k + 1, Len(rows)))

QueryLimit(limit) ==
    Max(1, Min(IF limit = 0 THEN DEFAULT_LIMIT ELSE limit, MAX_LIMIT))

\* list_fund_nav_history; start_date and end_date are <<>> for None
ListFundNavHistory(db, cache, fund_code, start_date, end_date, limit) ==
    LET code == NormalizeFundCode(fund_code)
        from == IF start_date = <<>> THEN [err |-> "", text |-> <<>>]
                ELSE NormalizeNavDate(start_date)
        to == IF end_date = <<>> THEN [err |-> "", text |-> <<>>]
              ELSE NormalizeNavDate(end_date)
        query_limit == QueryLimit(limit)
        tables == ListNavPartitionTablesTx(db, cache)
        nav_tables == ResolveNavTablesTx(tables, from.text, to.text)
        merged == Merge(db, nav_tables, code, from.text, to.text, query_limit)
        sorted == SortedReverse(merged)
    IN IF code = "" THEN [raised |-> "", rows |-> <<>>, cache |-> cache]
       ELSE IF from.err # "" \/ to.err # ""
       THEN [raised |-> "ValueError", rows |-> <<>>, cache |-> cache]
       ELSE [raised |-> "",
             rows |-> SubSeq(sorted, 1, Min(query_limit, Len(sorted))),
             cache |-> [set |-> TRUE, tables |-> tables]]

\* ----------------------------------------------------- get_nav_on_or_after
RECURSIVE Ascending(_)
Ascending(S) ==
    IF S = {} THEN <<>>
    ELSE LET m == CHOOSE x \in S : \A y \in S : x <= y
         IN <<m>> \o Ascending(S \ {m})

\* _resolve_nav_tables_tx(include_legacy=True, order_desc=False)
ResolveNavTablesAscTx(tables, start, end) ==
    LET kept == {t \in tables :
                    /\ start = <<>> \/ t >= Strptime(start)[1]
                    /\ end = <<>> \/ t <= Strptime(end)[1]}
    IN Ascending(kept) \o <<Legacy>>

\* SELECT ... WHERE f.fund_code = ? AND h.nav_date >= ? [AND h.nav_date <= ?]
\* ORDER BY h.nav_date ASC LIMIT 1: <<>> when fetchone() gives None
SelectFirstNav(db, tbl, code, start, end) ==
    LET hit == {r \in db.rows :
                   /\ r.tbl = tbl /\ r.code = code
                   /\ TextLeq(start, r.nav_date)
                   /\ end = <<>> \/ TextLeq(r.nav_date, end)}
    IN IF hit = {} THEN <<>>
       ELSE <<CHOOSE x \in hit : \A y \in hit : TextLeq(x.nav_date, y.nav_date)>>

\* the loop over nav_tables: best_row is replaced by a row of a smaller
\* nav_date only
RECURSIVE BestRow(_, _, _, _, _, _)
BestRow(db, tbls, code, start, end, best) ==
    IF tbls = <<>> THEN best
    ELSE LET row == SelectFirstNav(db, Head(tbls), code, start, end)
         IN BestRow(db, Tail(tbls), code, start, end,
                    IF row = <<>> THEN best
                    ELSE IF best = <<>> \/ TextLess(row[1].nav_date, best[1].nav_date)
                    THEN row
                    ELSE best)

\* get_nav_on_or_after; rows is <<>> for None and <<row>> for a record
GetNavOnOrAfter(db, cache, fund_code, start_date, end_date) ==
    LET code == NormalizeFundCode(fund_code)
        from == NormalizeNavDate(start_date)
        to == IF end_date = <<>> THEN [err |-> "", text |-> <<>>]
              ELSE NormalizeNavDate(end_date)
        tables == ListNavPartitionTablesTx(db, cache)
        nav_tables == ResolveNavTablesAscTx(tables, from.text, to.text)
    IN IF code = "" THEN [raised |-> "", rows |-> <<>>, cache |-> cache]
       ELSE IF from.err # "" \/ to.err # ""
       THEN [raised |-> "ValueError", rows |-> <<>>, cache |-> cache]
       ELSE [raised |-> "",
             rows |-> BestRow(db, nav_tables, code, from.text, to.text, <<>>),
             cache |-> [set |-> TRUE, tables |-> tables]]

\* some date texts
D1 == <<0, 1, Dash, 0, 5>>                      \* "2024-01-05"
D1Time == <<0, 1, Dash, 0, 5, Blank, 1, 5, Colon, 0, 0>>   \* "2024-01-05 15:00"
D1Short == <<1, Dash, 5>>                       \* "2024-1-5"
D3 == <<0, 2, Dash, 0, 1>>                      \* "2024-02-01"
BadDate == <<1, 3, Dash, 0, 1>>                 \* "2024-13-01"

SeqsUpTo(S, n) == UNION {[1..k -> S] : k \in 0..n}

\* the readings of the wall clock
Ts == 1..MaxTs

\* a record of nav_records
Rec(date, unit, accum, rate) ==
    [nav_date |-> date, unit_nav |-> unit, accum_nav |-> accum, change_rate |-> rate]

\* ------------------------------------------------------ get_latest_nav_date
\* the greatest of a set of texts, <<>> for None
Latest(S) ==
    IF S = {} THEN <<>> ELSE CHOOSE x \in S : \A y \in S : TextLeq(y, x)

\* get_latest_nav_date: the greatest nav_date of the fund over the partitions
\* and the legacy table; <<>> is None
GetLatestNavDate(db, cache, fund_code) ==
    LET code == NormalizeFundCode(fund_code)
        tables == ListNavPartitionTablesTx(db, cache)
        nav_tables == ResolveNavTablesTx(tables, <<>>, <<>>)
        tops == {Latest({r.nav_date : r \in {x \in db.rows :
                            x.tbl = nav_tables[i] /\ x.code = code}}) :
                     i \in DOMAIN nav_tables}
    IN IF code = "" \/ ~HasFund(db, code)
       THEN [date |-> <<>>, cache |-> cache]
       ELSE [date |-> Latest(tops \ {<<>>}),
             cache |-> [set |-> TRUE, tables |-> tables]]

\* ------------------------------------------------- the pass: _sync_funds_nav
ERROR_LIMIT == 20

\* _append_error with no limit
AppendErrorUnlimited(errors, message) == Append(errors, message)

\* _append_error
AppendError(errors, message) ==
    IF Len(errors) < ERROR_LIMIT THEN Append(errors, message) ELSE errors

Msg(code, what, date) == [code |-> code, what |-> what, date |-> date]

NewStats(n) ==
    [funds_total |-> n, funds_synced |-> 0, funds_no_new_data |-> 0,
     funds_failed |-> 0, nav_rows_upserted |-> 0, invalid_rows_skipped |-> 0,
     errors |-> <<>>]

\* NavSyncService._normalize_nav_date_text: <<>> is None
NormalizeNavDateText(value) ==
    LET text == Strip(value)
        cut == SubSeq(text, 1, Min(Len(text), DateWidth - YearDigits))
    IN IF text = <<>> \/ Strptime(cut) = <<0, 0>> THEN <<>> ELSE cut

Skipped(stats, message) ==
    [stats EXCEPT !.invalid_rows_skipped = @ + 1,
                  !.errors = AppendError(@, message)]

\* change_rate of a history item: None, "" and "--" give None, and so does a
\* text that is no number
ChangeRate(raw) == IF FloatRaises(raw) THEN None ELSE raw

\* _build_nav_records_from_history, the loop: nav_map is the set of the
\* records kept so far, one for a date, the later item replacing the earlier
RECURSIVE BuildLoop(_, _, _, _, _)
BuildLoop(items, latest, code, nav_map, stats) ==
    IF items = <<>> THEN [nav_map |-> nav_map, stats |-> stats]
    ELSE LET item == Head(items)
             nav_date == NormalizeNavDateText(item.date)
             others == {r \in nav_map : r.nav_date # nav_date}
         IN IF nav_date = <<>>
            THEN BuildLoop(Tail(items), latest, code, nav_map,
                           Skipped(stats, Msg(code, "invalid date", <<>>)))
            ELSE IF latest # <<>> /\ TextLeq(nav_date, latest)
            THEN BuildLoop(Tail(items), latest, code, nav_map, stats)
            ELSE IF FloatRaises(item.close)
            THEN BuildLoop(Tail(items), latest, code, nav_map,
                           Skipped(stats, Msg(code, "invalid nav", nav_date)))
            ELSE IF item.close.k = "num" /\ item.close.v <= 0
            THEN BuildLoop(Tail(items), latest, code, nav_map,
                           Skipped(stats, Msg(code, "non-positive nav", nav_date)))
            ELSE BuildLoop(Tail(items), latest, code,
                           others \cup {Rec(nav_date, item.close, None,
                                            ChangeRate(item.change_rate))},
                           stats)

\* the records of a set in the order of sorted(nav_map.keys())
RECURSIVE ByDateAsc(_)
ByDateAsc(S) ==
    IF S = {} THEN <<>>
    ELSE LET r == CHOOSE x \in S : \A y \in S : TextLeq(x.nav_date, y.nav_date)
         IN <<r>> \o ByDateAsc(S \ {r})

\* _build_nav_records_from_history
BuildNavRecordsFromHistory(history, latest_nav_date, fund_code, stats) ==
    LET built == BuildLoop(history, NormalizeNavDateText(latest_nav_date),
                           fund_code, {}, stats)
    IN [records |-> ByDateAsc(built.nav_map), stats |-> built.stats]

\* `if not history`
HistoryMissingNever(fetched) == FALSE
HistoryMissing(fetched) == fetched.k = "none" \/ fetched.items = <<>>

FundFailed(stats, message) ==
    [stats EXCEPT !.funds_failed = @ + 1, !.errors = AppendError(@, message)]

\* the code is six digits
IsFundCode(code) == code \in {"000001", "000002"}

\* _sync_funds_nav, after the records are built: b is what
\* _build_nav_records_from_history gave, u what upsert_fund_nav_history did
\* with b.records (it is not called when there are none)
SyncRecords(db, cache, code, b, u) ==
    IF b.records = <<>>
    THEN [stats |-> [b.stats EXCEPT !.funds_no_new_data = @ + 1],
          db |-> db, cache |-> cache, last |-> "no_new_data"]
    ELSE IF u.raised # ""
    THEN [stats |-> FundFailed(b.stats, Msg(code, u.raised, <<>>)),
          db |-> u.db, cache |-> u.cache, last |-> "upsert_failed"]
    ELSE [stats |-> [b.stats EXCEPT !.funds_synced = @ + 1,
                                    !.nav_rows_upserted = @ + u.affected],
          db |-> u.db, cache |-> u.cache, last |-> "synced"]

\* _sync_funds_nav, from the built records on
SyncBuilt(db, cache, code, name, source, now, b) ==
    SyncRecords(db, cache, code, b,
                Upsert(db, cache, code, b.records, name, source, now, now))

\* _sync_funds_nav, the try block for one fund: what get_lof_history gave is
\* `fetched`, a list, None or an exception
SyncFund(db, cache, stats, code, name, latest, fetched, source, now) ==
    IF fetched.k = "raise"
    THEN [stats |-> FundFailed(stats, Msg(code, "exception", <<>>)),
          db |-> db, cache |-> cache, last |-> "fetch_raised"]
    ELSE IF HistoryMissing(fetched)
    THEN [stats |-> FundFailed(stats, Msg(code, "no history", <<>>)),
          db |-> db, cache |-> cache, last |-> "no_history"]
    ELSE SyncBuilt(db, cache, code, name, source, now,
                   BuildNavRecordsFromHistory(fetched.items, latest, code, stats))

\* trigger, and source=f"{trigger}:eastmoney"
Triggers == {"manual", "scheduled"}
SourceOf(trigger) ==
    IF trigger = "manual" THEN "manual:eastmoney" ELSE "scheduled:eastmoney"

\* _sync_funds_nav, one fund with a valid code: get_latest_nav_date unless
\* force_full, then the try block
SyncOne(db, cache, p, fund, code, fetched, now, latest) ==
    SyncFund(db, latest.cache, p.stats, code, fund.fund_name, latest.date,
             fetched, SourceOf(p.trigger), now)

\* history items
Item(date, close, rate) == [date |-> date, close |-> close, change_rate |-> rate]
Items ==
    {Item(D1, Num(1), None), Item(D3, Num(2), Num(3)), Item(D3, NaN, None),
     Item(BadDate, Num(1), None), Item(D1Short, Num(4), None)}

Unfetched == [k |-> "unfetched", items |-> <<>>]

\* what get_lof_history gives: None, an exception, a list of a few items, or
\* a list of ERROR_LIMIT items without a date
Fetches ==
    {[k |-> "none", items |-> <<>>], [k |-> "raise", items |-> <<>>]}
    \cup {[k |-> "list", items |-> h] : h \in SeqsUpTo(Items, MaxItems)}
    \cup {[k |-> "list", items |-> [i \in 1..ERROR_LIMIT |-> Item(BadDate, Num(1), None)]]}

Fund(code, name) == [fund_code |-> code, fund_name |-> name]
Registered == <<Fund("000001", "A"), Fund("000002", ""), Fund("abc", "X")>>

\* _filter_funds_by_codes over list_funds(): the funds of the chosen codes, in
\* the order of ORDER BY fund_code ASC
FundLists ==
    {SelectSeq(Registered, LAMBDA f : f.fund_code \in chosen) :
        chosen \in SUBSET {Registered[i].fund_code : i \in DOMAIN Registered}}

IdlePass ==
    [pc |-> "idle", funds |-> <<>>, idx |-> 0, force_full |-> FALSE,
     trigger |-> "manual", stats |-> NewStats(0), last |-> "none",
     hist |-> Unfetched]

RegisteredDb ==
    [funds |-> {[code |-> Registered[i].fund_code, name |-> Registered[i].fund_name,
                 created_at |-> 1, updated_at |-> 1] : i \in DOMAIN Registered},
     tables |-> {}, rows |-> {}]

PassSeedDbs ==
    {RegisteredDb,
     InsertOrUpdate(EnsureNavPartitionTableTx(RegisteredDb, 1), "000001",
                    Prepare(Rec(D1, Num(1), None, None)), "manual:eastmoney", 1)}

\* ------------------------------------------------ the store's API, called
ValidRecords ==
    {Rec(D1, Num(1), None, None), Rec(D1Time, Num(2), Num(7), Num(3)),
     Rec(D3, Num(1), None, Dashes), Rec(D1Short, Num(4), None, None)}

InvalidRecords ==
    {Rec(BadDate, Num(1), None, None), Rec(<<>>, Num(1), None, None),
     Rec(D1, Num(0), None, None), Rec(D1, Word, None, None),
     Rec(D3, NaN, None, None)}

Records == ValidRecords \cup InvalidRecords

Batches == SeqsUpTo(Records, MaxBatch)
Names == {"B"}
Sources == {"", "manual:eastmoney", "scheduled:eastmoney"}
UpsertCodes == {"1"}
ListCodes == {"000001", ""}
Ranges == {<<>>, D1, D1Time, D3, D1Short, BadDate}
Limits == {0, 1}

NoCall ==
    [n |-> 0, op |-> "none", fund_code |-> "", nav_records |-> <<>>,
     fund_name |-> "", source |-> "", now_ts |-> 0, start_date |-> <<>>,
     end_date |-> <<>>, limit |-> 0, raised |-> "", rows |-> <<>>, affected |-> 0]

\* A row of the table fund_nav_history, written by a release that had no
\* partitions.
LegacyRow(text, ts) ==
    [tbl |-> Legacy, code |-> "000001", nav_date |-> text, unit_nav |-> 3,
     accum_nav |-> <<>>, change_rate |-> <<>>, source |-> "legacy",
     created_at |-> ts, updated_at |-> ts]

SeedDbs ==
    {EmptyDb} \cup
    {[funds |-> {[code |-> "000001", name |-> "A", created_at |-> ts,
                  updated_at |-> ts]},
      tables |-> {}, rows |-> {LegacyRow(D1, ts)}] : ts \in Ts}

NavInit ==
    /\ store \in SeedDbs
    /\ nav_partition_table_cache = NoCache
    /\ call = NoCall
    /\ pass = IdlePass

NavIdle ==
    /\ store = EmptyDb
    /\ nav_partition_table_cache = NoCache
    /\ call = NoCall
    /\ pass = IdlePass

UpsertCall ==
    /\ call.n < MaxCalls
    /\ \E code \in UpsertCodes, batch \in Batches, name \in Names,
          source \in Sources, now \in Ts :
         LET r == Upsert(store, nav_partition_table_cache, code, batch, name,
                         source, now, now)
         IN /\ store' = r.db
            /\ nav_partition_table_cache' = r.cache
            /\ call' = [NoCall EXCEPT !.n = call.n + 1, !.op = "upsert",
                                      !.fund_code = code, !.nav_records = batch,
                                      !.fund_name = name, !.source = source,
                                      !.now_ts = now, !.raised = r.raised,
                                      !.affected = r.affected]
    /\ UNCHANGED <<schedVars, pass, ledgerVars, pluginVars>>

ListCall ==
    /\ call.n < MaxCalls
    /\ \E code \in ListCodes, start \in Ranges, end \in Ranges, limit \in Limits :
         LET r == ListFundNavHistory(store, nav_partition_table_cache, code,
                                     start, end, limit)
         IN /\ nav_partition_table_cache' = r.cache
            /\ call' = [NoCall EXCEPT !.n = call.n + 1, !.op = "list",
                                      !.fund_code = code, !.start_date = start,
                                      !.end_date = end, !.limit = limit,
                                      !.raised = r.raised, !.rows = r.rows]
    /\ UNCHANGED <<store, schedVars, pass, ledgerVars, pluginVars>>

GetNavCall ==
    /\ call.n < MaxCalls
    /\ \E code \in ListCodes, start \in Ranges, end \in Ranges :
         LET r == GetNavOnOrAfter(store, nav_partition_table_cache, code,
                                  start, end)
         IN /\ nav_partition_table_cache' = r.cache
            /\ call' = [NoCall EXCEPT !.n = call.n + 1, !.op = "on_or_after",
                                      !.fund_code = code, !.start_date = start,
                                      !.end_date = end,
                                      !.raised = r.raised, !.rows = r.rows]
    /\ UNCHANGED <<store, schedVars, pass, ledgerVars, pluginVars>>

\* ------------------------------------------------- the pass, step by step
PassInit ==
    /\ store \in PassSeedDbs
    /\ nav_partition_table_cache = NoCache
    /\ call = NoCall
    /\ pass = IdlePass

\* sync_position_funds_nav / sync_registered_funds_nav: the funds are listed
\* and, the lock acquired, the statistics are set up
PassStart ==
    /\ pass.pc = "idle"
    /\ \E funds \in FundLists, force_full \in BOOLEAN, trigger \in Triggers :
         pass' = [IdlePass EXCEPT !.pc = "running", !.funds = funds, !.idx = 1,
                                  !.force_full = force_full, !.trigger = trigger,
                                  !.stats = NewStats(Len(funds))]
    /\ UNCHANGED <<schedVars, navVars, ledgerVars, pluginVars>>

\* `for fund in funds`: the fund of this turn and its code
AtFund == pass.pc = "running" /\ pass.idx <= Len(pass.funds)
ThisFund == pass.funds[pass.idx]
ThisCode == NormalizeFundCode(ThisFund.fund_code)

\* one turn of the loop, the code not being six digits
PassFundInvalidCode ==
    /\ AtFund
    /\ ~IsFundCode(ThisCode)
    /\ pass' = [pass EXCEPT
                  !.idx = @ + 1, !.last = "invalid_code", !.hist = Unfetched,
                  !.stats = FundFailed(@, Msg(ThisCode, "invalid code", <<>>))]
    /\ UNCHANGED <<schedVars, navVars, ledgerVars, pluginVars>>

\* one turn of the loop, get_latest_nav_date raising a storage error: the
\* call is outside the try and the error leaves the pass
PassFundStorageError ==
    /\ AtFund
    /\ IsFundCode(ThisCode)
    /\ ~pass.force_full
    /\ pass' = [pass EXCEPT !.pc = "raised", !.last = "storage_error",
                            !.hist = Unfetched]
    /\ UNCHANGED <<schedVars, navVars, ledgerVars, pluginVars>>

\* one turn of the loop: get_latest_nav_date, get_lof_history and the try
\* block
\* the pass after one fund whose turn gave r
AfterFund(p, fetched, r) ==
    [p EXCEPT !.idx = @ + 1, !.last = r.last, !.hist = fetched, !.stats = r.stats]

PassFundStep(fetched, r) ==
    /\ pass' = AfterFund(pass, fetched, r)
    /\ store' = r.db
    /\ nav_partition_table_cache' = r.cache

PassFund ==
    /\ AtFund
    /\ IsFundCode(ThisCode)
    /\ \E fetched \in Fetches, now \in Ts :
         PassFundStep(fetched,
             SyncOne(store, nav_partition_table_cache, pass, ThisFund, ThisCode,
                     fetched, now,
                     IF pass.force_full
                     THEN [date |-> <<>>, cache |-> nav_partition_table_cache]
                     ELSE GetLatestNavDate(store, nav_partition_table_cache,
                                           ThisCode)))
    /\ UNCHANGED <<schedVars, call, ledgerVars, pluginVars>>

\* `return stats`
PassReturn ==
    /\ pass.pc = "running" /\ pass.idx > Len(pass.funds)
    /\ pass' = [pass EXCEPT !.pc = "returned"]
    /\ UNCHANGED <<schedVars, navVars, ledgerVars, pluginVars>>

\* ============================================================ the ledger
\* A ledger is the tables funds, user_fund_positions and
\* user_fund_position_logs.  The platform is one and the same in every call
\* and is left out of the keys.  Shares are counted in units of 5e-9 share, so
\* that the tolerance 1e-8 is two units; a cost is a fraction <<n, d>> in
\* lowest terms.
EPSILON == 2

RECURSIVE Gcd(_, _)
Gcd(a, b) == IF b = 0 THEN a ELSE Gcd(b, a % b)

\* n / d in lowest terms, for n >= 0 and d > 0
Frac(n, d) == <<n \div Gcd(n, d), d \div Gcd(n, d)>>

\* the mean of the two costs, whatever the shares
MergedAvgCostPlain(old_avg_cost, old_shares, avg_cost, shares) ==
    Frac(old_avg_cost[1] * avg_cost[2] + avg_cost[1] * old_avg_cost[2],
         2 * old_avg_cost[2] * avg_cost[2])

\* (old_avg_cost * old_shares + avg_cost * shares) / merged_shares
MergedAvgCost(old_avg_cost, old_shares, avg_cost, shares) ==
    Frac(old_avg_cost[1] * old_shares * avg_cost[2]
            + avg_cost[1] * shares * old_avg_cost[2],
         old_avg_cost[2] * avg_cost[2] * (old_shares + shares))

EmptyLedger == [funds |-> {}, positions |-> {}, logs |-> {}]

\* _get_fund_by_code_tx
LedgerHasFund(lg, code) == \E f \in lg.funds : f.code = code
LedgerFund(lg, code) == CHOOSE f \in lg.funds : f.code = code

\* the id an AUTOINCREMENT column gives the next row
NextId(rows) ==
    IF rows = {} THEN 1
    ELSE 1 + (CHOOSE i \in {r.id : r \in rows} : \A r \in rows : r.id <= i)

\* _ensure_fund_tx on the ledger: the fund of the code, inserted when missing,
\* its name replaced by a name that is not empty
LedgerEnsureFundTx(lg, code, name) ==
    IF LedgerHasFund(lg, code)
    THEN LET old == LedgerFund(lg, code)
         IN [lg EXCEPT !.funds = (lg.funds \ {old}) \cup
                {[old EXCEPT !.name = IF name # "" THEN name ELSE old.name]}]
    ELSE [lg EXCEPT !.funds = lg.funds \cup
             {[id |-> NextId(lg.funds), code |-> code, name |-> name]}]

\* _get_position_tx
HasPosition(lg, user, fund_id) ==
    \E p \in lg.positions : p.user = user /\ p.fund_id = fund_id
PositionOf(lg, user, fund_id) ==
    CHOOSE p \in lg.positions : p.user = user /\ p.fund_id = fund_id

\* _get_position_by_code_tx: the JOIN of the position with its fund
HasPositionByCode(lg, user, code) ==
    LedgerHasFund(lg, code) /\ HasPosition(lg, user, LedgerFund(lg, code).id)
PositionByCode(lg, user, code) == PositionOf(lg, user, LedgerFund(lg, code).id)

\* _upsert_position_tx; avg_cost and shares are what _as_positive_float
\* returned.  A NaN is bound as NULL and fails NOT NULL: IntegrityError.
UpsertPositionTx(lg, user, fund_id, avg_cost, shares) ==
    IF avg_cost.nan \/ shares.nan THEN [raised |-> "IntegrityError", lg |-> lg]
    ELSE IF ~HasPosition(lg, user, fund_id)
    THEN [raised |-> "",
          lg |-> [lg EXCEPT !.positions = @ \cup
                    {[user |-> user, fund_id |-> fund_id,
                      avg_cost |-> Frac(avg_cost.v, 1), shares |-> shares.v]}]]
    ELSE LET old == PositionOf(lg, user, fund_id)
             merged_shares == old.shares + shares.v
         IN IF merged_shares <= 0 THEN [raised |-> "ValueError", lg |-> lg]
            ELSE [raised |-> "",
                  lg |-> [lg EXCEPT !.positions = (@ \ {old}) \cup
                            {[old EXCEPT
                                !.avg_cost = MergedAvgCost(old.avg_cost, old.shares,
                                                           Frac(avg_cost.v, 1), shares.v),
                                !.shares = merged_shares]}]]

\* one record of add_or_merge_positions inside the transaction; the
\* add_or_merge_position of one record does the same with the checks first
AddRecordTx(lg, user, rec) ==
    LET code == NormalizeFundCode(rec.fund_code)
        avg_cost == AsPositiveFloat(rec.avg_cost)
        shares == AsPositiveFloat(rec.shares)
        funded == LedgerEnsureFundTx(lg, code, rec.fund_name)
    IN IF code = "" \/ avg_cost.err # "" \/ shares.err # ""
       THEN [raised |-> "ValueError", lg |-> lg]
       ELSE UpsertPositionTx(funded, user, LedgerFund(funded, code).id,
                             avg_cost, shares)

\* add_or_merge_position: the transaction is rolled back when it raises
AddOrMergePosition(lg, user, rec) ==
    LET r == AddRecordTx(lg, user, rec)
    IN IF user = "" THEN [raised |-> "ValueError", lg |-> lg]
       ELSE IF r.raised # "" THEN [raised |-> r.raised, lg |-> lg]
       ELSE r

\* the loop of add_or_merge_positions, which a raising record leaves
RECURSIVE AddLoop(_, _, _)
AddLoopNext(r, user, records) ==
    IF r.raised # "" THEN r ELSE AddLoop(r.lg, user, records)

AddLoop(lg, user, records) ==
    IF records = <<>> THEN [raised |-> "", lg |-> lg]
    ELSE AddLoopNext(AddRecordTx(lg, user, Head(records)), user, Tail(records))

\* add_or_merge_positions: one transaction for the records, rolled back when
\* a record raises
AddOrMergePositions(lg, user, records) ==
    LET r == AddLoop(lg, user, records)
    IN IF user = "" THEN [raised |-> "ValueError", lg |-> lg]
       ELSE IF r.raised # "" THEN [raised |-> r.raised, lg |-> lg]
       ELSE r

\* what reduce_position and reduce_position_with_log return when they raise
ReduceRaised(lg, error) ==
    [raised |-> error, lg |-> lg, shares_before |-> 0, shares_after |-> 0,
     position_deleted |-> FALSE, log_id |-> 0]

\* a reduction that UPDATEs the row whatever is left of it
ReduceRowTxKeeps(lg, row, sold) ==
    [lg |-> [lg EXCEPT !.positions = (@ \ {row}) \cup
                {[row EXCEPT !.shares = row.shares - sold]}],
     shares_after |-> row.shares - sold, position_deleted |-> FALSE]

\* the DELETE or UPDATE of a reduction by `sold` of the position `row`
ReduceRowTx(lg, row, sold) ==
    LET remaining == row.shares - sold
    IN IF remaining <= EPSILON
       THEN [lg |-> [lg EXCEPT !.positions = @ \ {row}],
             shares_after |-> 0, position_deleted |-> TRUE]
       ELSE [lg |-> [lg EXCEPT !.positions = (@ \ {row}) \cup
                        {[row EXCEPT !.shares = remaining]}],
             shares_after |-> remaining, position_deleted |-> FALSE]

\* the result of reduce_position for the position `row` and what was done
ReduceReturn(row, done) ==
    [raised |-> "", lg |-> done.lg, shares_before |-> row.shares,
     shares_after |-> done.shares_after,
     position_deleted |-> done.position_deleted, log_id |-> 0]

\* reduce_position without the tolerance: more than is held is refused
ReducePositionStrict(lg, user, fund_code, shares) ==
    LET code == NormalizeFundCode(fund_code)
        shares_num == AsPositiveFloat(shares)
    IN IF user = "" \/ code = "" \/ shares_num.err # ""
       THEN ReduceRaised(lg, "ValueError")
       ELSE IF ~HasPositionByCode(lg, user, code)
       THEN ReduceRaised(lg, "ValueError")
       ELSE IF shares_num.nan THEN ReduceRaised(lg, "IntegrityError")
       ELSE IF shares_num.v > PositionByCode(lg, user, code).shares
       THEN ReduceRaised(lg, "ValueError")
       ELSE ReduceReturn(PositionByCode(lg, user, code),
                         ReduceRowTx(lg, PositionByCode(lg, user, code),
                                     shares_num.v))

\* reduce_position.  A NaN passes both comparisons and fails the UPDATE:
\* IntegrityError.
ReducePosition(lg, user, fund_code, shares) ==
    LET code == NormalizeFundCode(fund_code)
        shares_num == AsPositiveFloat(shares)
    IN IF user = "" \/ code = "" \/ shares_num.err # ""
       THEN ReduceRaised(lg, "ValueError")
       ELSE IF ~HasPositionByCode(lg, user, code)
       THEN ReduceRaised(lg, "ValueError")
       ELSE IF shares_num.nan THEN ReduceRaised(lg, "IntegrityError")
       ELSE IF shares_num.v > PositionByCode(lg, user, code).shares + EPSILON
       THEN ReduceRaised(lg, "ValueError")
       ELSE ReduceReturn(PositionByCode(lg, user, code),
                         ReduceRowTx(lg, PositionByCode(lg, user, code),
                                     shares_num.v))

\* a log row whose shares_after is the remainder, stored or not
LogRowRemainder(lg, row, action, sold, shares_after, note) ==
    [id |-> NextId(lg.logs), user |-> row.user, fund_id |-> row.fund_id,
     action |-> action, shares_delta |-> 0 - sold, shares_before |-> row.shares,
     shares_after |-> row.shares - sold, avg_cost |-> row.avg_cost,
     note |-> note]

\* a log row whose note is left at the column's default
LogRowUnnoted(lg, row, action, sold, shares_after, note) ==
    [id |-> NextId(lg.logs), user |-> row.user, fund_id |-> row.fund_id,
     action |-> action, shares_delta |-> 0 - sold, shares_before |-> row.shares,
     shares_after |-> shares_after, avg_cost |-> row.avg_cost, note |-> <<>>]

\* the row INSERTed INTO user_fund_position_logs by reduce_position_with_log
LogRow(lg, row, action, sold, shares_after, note) ==
    [id |-> NextId(lg.logs), user |-> row.user, fund_id |-> row.fund_id,
     action |-> action, shares_delta |-> 0 - sold, shares_before |-> row.shares,
     shares_after |-> shares_after, avg_cost |-> row.avg_cost, note |-> note]

\* the result of reduce_position_with_log, the log row inserted
ReduceLogged(row, done, action, sold, note) ==
    [raised |-> "",
     lg |-> [done.lg EXCEPT !.logs = @ \cup
               {LogRow(done.lg, row, action, sold, done.shares_after, note)}],
     shares_before |-> row.shares, shares_after |-> done.shares_after,
     position_deleted |-> done.position_deleted,
     log_id |-> NextId(done.lg.logs)]

\* reduce_position_with_log after the checks: the fund's name, the position,
\* the log
ReduceWithLogTx(lg, row, named, action, sold, note) ==
    ReduceLogged(row, ReduceRowTx(named, row, sold), action, sold, note)

\* str(note or "").strip(): a note is a sequence of phrases, and the only one
\* with blanks at its ends is the note of blanks alone
StripNote(note) == IF Len(note) = 1 /\ note[1] = " " THEN <<>> ELSE note

\* reduce_position_with_log; action is the text after strip().lower()
ReducePositionWithLog(lg, user, fund_code, shares, action, fund_name, note) ==
    LET code == NormalizeFundCode(fund_code)
        shares_num == AsPositiveFloat(shares)
    IN IF user = "" \/ code = "" \/ action = "" \/ shares_num.err # ""
       THEN ReduceRaised(lg, "ValueError")
       ELSE IF ~HasPositionByCode(lg, user, code)
       THEN ReduceRaised(lg, "ValueError")
       ELSE IF shares_num.nan THEN ReduceRaised(lg, "IntegrityError")
       ELSE IF shares_num.v > PositionByCode(lg, user, code).shares + EPSILON
       THEN ReduceRaised(lg, "ValueError")
       ELSE ReduceWithLogTx(lg, PositionByCode(lg, user, code),
                            IF fund_name # ""
                            THEN LedgerEnsureFundTx(lg, code, fund_name) ELSE lg,
                            action, shares_num.v, StripNote(note))

\* delete_position
DeletePosition(lg, user, fund_code) ==
    LET code == NormalizeFundCode(fund_code)
    IN IF user = "" \/ code = "" \/ ~LedgerHasFund(lg, code)
       THEN [lg |-> lg, deleted |-> FALSE]
       ELSE [lg |-> [lg EXCEPT !.positions =
                        {p \in @ : ~(p.user = user
                                     /\ p.fund_id = LedgerFund(lg, code).id)}],
             deleted |-> HasPositionByCode(lg, user, code)]

\* a clear that takes the caller's log rows with the positions
ClearPositionsAndLogs(lg, user) ==
    [lg |-> [lg EXCEPT !.positions = {p \in @ : p.user # user},
                       !.logs = {l \in @ : l.user # user}],
     count |-> Cardinality({p \in lg.positions : p.user = user})]

\* clear_positions
ClearPositions(lg, user) ==
    [lg |-> [lg EXCEPT !.positions = {p \in @ : p.user # user}],
     count |-> Cardinality({p \in lg.positions : p.user = user})]

\* ------------------------------------------- repair_user_position_funds
\* the order of the model's fund codes as texts: ORDER BY f.fund_code ASC
CodeRank(code) ==
    CASE code = "000001" -> 1
      [] code = "000002" -> 2
      [] code = "01" -> 3
      [] code = "1" -> 4
      [] code = "2" -> 5
      [] OTHER -> 6

FundById(lg, id) == CHOOSE f \in lg.funds : f.id = id

\* the fund ids of the user's positions in the order of the SELECT
RECURSIVE ByCode(_, _)
ByCode(lg, ids) ==
    IF ids = {} THEN <<>>
    ELSE LET first == CHOOSE i \in ids : \A j \in ids :
                         CodeRank(FundById(lg, i).code) <= CodeRank(FundById(lg, j).code)
         IN <<first>> \o ByCode(lg, ids \ {first})

NewRepairStats ==
    [positions_relinked |-> 0, positions_merged |-> 0, logs_relinked |-> 0,
     failed |-> 0]

\* UPDATE user_fund_position_logs SET fund_id = target WHERE ... fund_id = origin
RelinkLogs(logs, user, origin, target) ==
    {IF l.user = user /\ l.fund_id = origin THEN [l EXCEPT !.fund_id = target]
     ELSE l : l \in logs}

\* the position of origin moved to the fund target, which has no position
RelinkPosition(lg, from, target) ==
    [lg EXCEPT !.positions = (@ \ {from}) \cup {[from EXCEPT !.fund_id = target]}]

\* a collision settled by dropping the position of origin
MergePositionDrop(lg, from, into) ==
    [lg EXCEPT !.positions = @ \ {from}]

\* the position of origin merged into the position `into` of the target fund
MergePosition(lg, from, into) ==
    IF from.shares + into.shares <= 0
    THEN [lg EXCEPT !.positions = @ \ {from}]
    ELSE [lg EXCEPT !.positions = (@ \ {from, into}) \cup
            {[into EXCEPT
                !.avg_cost = MergedAvgCost(from.avg_cost, from.shares,
                                           into.avg_cost, into.shares),
                !.shares = from.shares + into.shares]}]

\* one turn of `for row in rows` for a position that is to move: `funded` is
\* the ledger after _ensure_fund_tx
RepairMove(funded, user, origin, target, stats) ==
    LET from == PositionOf(funded, user, origin)
        moved == IF HasPosition(funded, user, target)
                 THEN MergePosition(funded, from, PositionOf(funded, user, target))
                 ELSE RelinkPosition(funded, from, target)
        touched == {l \in funded.logs : l.user = user /\ l.fund_id = origin}
    IN [lg |-> [moved EXCEPT !.logs = RelinkLogs(@, user, origin, target)],
        stats |-> [stats EXCEPT
                     !.positions_relinked =
                         IF HasPosition(funded, user, target) THEN @ ELSE @ + 1,
                     !.positions_merged =
                         IF HasPosition(funded, user, target) THEN @ + 1 ELSE @,
                     !.logs_relinked = @ + Cardinality(touched)]]

\* one turn of `for row in rows`
RepairFund(lg, user, origin, stats) ==
    IF ~HasPosition(lg, user, origin) THEN [lg |-> lg, stats |-> stats]
    ELSE LET fund == FundById(lg, origin)
             normalized_code == NormalizeFundCode(fund.code)
             funded == LedgerEnsureFundTx(lg, normalized_code, fund.name)
             target == LedgerFund(funded, normalized_code).id
         IN IF target = origin THEN [lg |-> funded, stats |-> stats]
            ELSE RepairMove(funded, user, origin, target, stats)

RECURSIVE RepairLoop(_, _, _, _)
RepairStep(r, user, origins) == RepairLoop(r.lg, user, origins, r.stats)

RepairLoop(lg, user, origins, stats) ==
    IF origins = <<>> THEN [lg |-> lg, stats |-> stats]
    ELSE RepairStep(RepairFund(lg, user, Head(origins), stats), user, Tail(origins))

\* repair_user_position_funds with no fund_name_map
RepairUserPositionFunds(lg, user) ==
    IF user = "" THEN [raised |-> "ValueError", lg |-> lg, stats |-> NewRepairStats]
    ELSE LET r == RepairLoop(lg, user,
                     ByCode(lg, {p.fund_id : p \in {q \in lg.positions : q.user = user}}),
                     NewRepairStats)
         IN [raised |-> "", lg |-> r.lg, stats |-> r.stats]

\* ------------------------------------------------ the ledger's API, called
LedgerUsers == {"u1"}

AddRec(code, cost, shares, name) ==
    [fund_code |-> code, avg_cost |-> cost, shares |-> shares, fund_name |-> name]

ValidAdds ==
    {AddRec("1", Num(1), Num(2), "A"), AddRec("000001", Num(2), Num(2), ""),
     AddRec("2", Num(1), Num(4), "")}

InvalidAdds == {AddRec("1", Num(0), Num(2), ""), AddRec("2", Num(1), NaN, "")}

AddRecords == ValidAdds \cup InvalidAdds
AddBatches == SeqsUpTo(AddRecords, MaxAdds)

ReduceCodes == {"1", "2"}
ReduceShares == {Num(0), Num(1), Num(4), Num(5), NaN, Word}
Actions == {"clear", ""}
FundNames == {"", "B"}
LogNotes == {<<" ">>, <<"sold">>}

NoLedgerCall ==
    [n |-> 0, op |-> "none", user |-> "", fund_code |-> "", shares |-> None,
     records |-> <<>>, action |-> "", fund_name |-> "", raised |-> "",
     shares_before |-> 0, shares_after |-> 0, position_deleted |-> FALSE,
     log_id |-> 0, stats |-> NewRepairStats, deleted |-> FALSE, count |-> 0]

\* rows written by an earlier release, which stored fund codes as given
Position(user, fund_id, avg_cost, shares) ==
    [user |-> user, fund_id |-> fund_id, avg_cost |-> Frac(avg_cost, 1),
     shares |-> shares]

BuyLog(id, user, fund_id, shares) ==
    [id |-> id, user |-> user, fund_id |-> fund_id, action |-> "buy",
     shares_delta |-> shares, shares_before |-> 0, shares_after |-> shares,
     avg_cost |-> Frac(1, 1), note |-> <<>>]

FundOf(id, code, name) == [id |-> id, code |-> code, name |-> name]

SeedLedgers ==
    {EmptyLedger,
     [funds |-> {FundOf(1, "1", "A"), FundOf(2, "000001", "")},
      positions |-> {Position("u1", 1, 1, 2), Position("u1", 2, 2, 2),
                     Position("u2", 1, 1, 4)},
      logs |-> {BuyLog(1, "u1", 1, 2), BuyLog(2, "u2", 1, 4)}],
     [funds |-> {FundOf(1, "1", "A"), FundOf(2, "01", "")},
      positions |-> {Position("u1", 1, 1, 2), Position("u1", 2, 2, 4)},
      logs |-> {BuyLog(1, "u1", 1, 2), BuyLog(2, "u1", 2, 4)}],
     [funds |-> {FundOf(1, "000001", "A"), FundOf(2, "000002", "")},
      positions |-> {Position("u1", 1, 1, 4), Position("u1", 2, 2, 3),
                     Position("u2", 1, 1, 4)},
      logs |-> {}]}

LedgerInit == ledger \in SeedLedgers /\ lcall = NoLedgerCall

LedgerIdle == ledger = EmptyLedger /\ lcall = NoLedgerCall

LedgerQuiet == UNCHANGED <<schedVars, navVars, pass, pluginVars>>

AddCall ==
    /\ lcall.n < MaxLedgerCalls
    /\ \E user \in LedgerUsers, rec \in AddRecords :
         LET r == AddOrMergePosition(ledger, user, rec)
         IN /\ ledger' = r.lg
            /\ lcall' = [NoLedgerCall EXCEPT !.n = lcall.n + 1, !.op = "add",
                                             !.user = user, !.records = <<rec>>,
                                             !.raised = r.raised]
    /\ LedgerQuiet

AddBatchCall ==
    /\ lcall.n < MaxLedgerCalls
    /\ \E user \in LedgerUsers, records \in AddBatches :
         LET r == AddOrMergePositions(ledger, user, records)
         IN /\ ledger' = r.lg
            /\ lcall' = [NoLedgerCall EXCEPT !.n = lcall.n + 1, !.op = "add_batch",
                                             !.user = user, !.records = records,
                                             !.raised = r.raised]
    /\ LedgerQuiet

\* the call record of a reduction
ReduceRecord(op, user, code, shares, action, fund_name, r) ==
    [NoLedgerCall EXCEPT !.n = lcall.n + 1, !.op = op, !.user = user,
                         !.fund_code = code, !.shares = shares,
                         !.action = action, !.fund_name = fund_name,
                         !.raised = r.raised,
                         !.shares_before = r.shares_before,
                         !.shares_after = r.shares_after,
                         !.position_deleted = r.position_deleted,
                         !.log_id = r.log_id]

ReduceCall ==
    /\ lcall.n < MaxLedgerCalls
    /\ \E user \in LedgerUsers, code \in ReduceCodes, shares \in ReduceShares :
         LET r == ReducePosition(ledger, user, code, shares)
         IN /\ ledger' = r.lg
            /\ lcall' = ReduceRecord("reduce", user, code, shares, "", "", r)
    /\ LedgerQuiet

ReduceWithLogCall ==
    /\ lcall.n < MaxLedgerCalls
    /\ \E user \in LedgerUsers, code \in ReduceCodes, shares \in ReduceShares,
          action \in Actions, fund_name \in FundNames, note \in LogNotes :
         LET r == ReducePositionWithLog(ledger, user, code, shares, action,
                                        fund_name, note)
         IN /\ ledger' = r.lg
            /\ lcall' = ReduceRecord("reduce_with_log", user, code, shares,
                                     action, fund_name, r)
    /\ LedgerQuiet

RepairCall ==
    /\ lcall.n < MaxLedgerCalls
    /\ \E user \in LedgerUsers :
         LET r == RepairUserPositionFunds(ledger, user)
         IN /\ ledger' = r.lg
            /\ lcall' = [NoLedgerCall EXCEPT !.n = lcall.n + 1, !.op = "repair",
                                             !.user = user, !.raised = r.raised,
                                             !.stats = r.stats]
    /\ LedgerQuiet

DeleteCall ==
    /\ lcall.n < MaxLedgerCalls
    /\ \E user \in LedgerUsers, code \in ReduceCodes :
         LET r == DeletePosition(ledger, user, code)
         IN /\ ledger' = r.lg
            /\ lcall' = [NoLedgerCall EXCEPT !.n = lcall.n + 1, !.op = "delete",
                                             !.user = user, !.fund_code = code,
                                             !.deleted = r.deleted]
    /\ LedgerQuiet

ClearCall ==
    /\ lcall.n < MaxLedgerCalls
    /\ \E user \in LedgerUsers :
         LET r == ClearPositions(ledger, user)
         IN /\ ledger' = r.lg
            /\ lcall' = [NoLedgerCall EXCEPT !.n = lcall.n + 1, !.op = "clear",
                                             !.user = user, !.count = r.count]
    /\ LedgerQuiet

\* ============================================ the settlement date (main.py)
\* A date is <<year, month, day>>, a time of day <<hour, minute, second>>.
IsLeap(y) == (y % 4 = 0 /\ y % 100 # 0) \/ y % 400 = 0

\* the days of month m of year y
DaysInMonthOf(y, m) ==
    IF m = 2 THEN (IF IsLeap(y) THEN 29 ELSE 28)
    ELSE IF m \in {4, 6, 9, 11} THEN 30 ELSE 31

\* date + timedelta(days=1)
NextDay(ymd) ==
    IF ymd[3] < DaysInMonthOf(ymd[1], ymd[2]) THEN <<ymd[1], ymd[2], ymd[3] + 1>>
    ELSE IF ymd[2] < 12 THEN <<ymd[1], ymd[2] + 1, 1>>
    ELSE <<ymd[1] + 1, 1, 1>>

\* date + timedelta(days=n), n >= 0
RECURSIVE AddDays(_, _)
AddDays(ymd, n) == IF n = 0 THEN ymd ELSE AddDays(NextDay(ymd), n - 1)

\* the days from 31 December 2022 to a date of 2023 or later: the date's
\* proleptic ordinal up to a constant
RECURSIVE DaysBeforeYear(_)
DaysBeforeYear(y) ==
    IF y <= 2023 THEN 0
    ELSE DaysBeforeYear(y - 1) + (IF IsLeap(y - 1) THEN 366 ELSE 365)

RECURSIVE DaysBeforeMonth(_, _)
DaysBeforeMonth(y, m) ==
    IF m <= 1 THEN 0 ELSE DaysBeforeMonth(y, m - 1) + DaysInMonthOf(y, m - 1)

Ordinal(ymd) == DaysBeforeYear(ymd[1]) + DaysBeforeMonth(ymd[1], ymd[2]) + ymd[3]

\* a trade at 15:00:00 counted as before the cutoff
BeforeCutoffInclusive(hms) ==
    \/ hms[1] < 15
    \/ hms = <<15, 0, 0>>

\* trade_time.time() < dt_time(hour=15, minute=0)
BeforeCutoff(hms) == hms[1] < 15

\* FundAnalyzerPlugin._calc_expected_settlement_date
CalcExpectedSettlementDate(trade_time, is_qdii) ==
    LET before_cutoff == BeforeCutoff(trade_time.time)
        base_offset == IF is_qdii THEN (IF before_cutoff THEN 2 ELSE 3)
                       ELSE (IF before_cutoff THEN 1 ELSE 2)
    IN [expected_date |-> AddDays(trade_time.date, base_offset),
        rule_text |-> IF is_qdii THEN "QDII" ELSE "non-QDII"]

\* trade days: month ends, 28 and 29 February of a common and of a leap
\* year, the end of a year, a Thursday, Friday, Saturday and Sunday
TradeDays ==
    {<<2023, 2, 27>>, <<2023, 2, 28>>, <<2024, 2, 27>>, <<2024, 2, 28>>,
     <<2024, 2, 29>>, <<2024, 4, 29>>, <<2024, 4, 30>>, <<2024, 12, 29>>,
     <<2024, 12, 30>>, <<2024, 12, 31>>, <<2024, 1, 4>>, <<2024, 1, 5>>,
     <<2024, 1, 6>>, <<2024, 1, 7>>}

TradeTimes ==
    {<<0, 0, 0>>, <<9, 30, 0>>, <<14, 59, 59>>, <<15, 0, 0>>, <<15, 0, 1>>,
     <<23, 59, 59>>}

NoDate == <<0, 0, 0>>

\* no trade to settle
NoSettle ==
    [trade_time |-> [date |-> NoDate, time |-> <<0, 0, 0>>], is_qdii |-> FALSE,
     done |-> FALSE, expected_date |-> NoDate, rule_text |-> ""]

SettleIdle == settle = NoSettle

\* a trade time and a fund class, the date not computed yet
SettleInit ==
    \E ymd \in TradeDays, hms \in TradeTimes, is_qdii \in BOOLEAN :
       settle = [NoSettle EXCEPT !.trade_time = [date |-> ymd, time |-> hms],
                                 !.is_qdii = is_qdii]

CalcCall ==
    /\ ~settle.done
    /\ settle.trade_time.date # NoDate
    /\ LET r == CalcExpectedSettlementDate(settle.trade_time, settle.is_qdii)
       IN settle' = [settle EXCEPT !.done = TRUE,
                                   !.expected_date = r.expected_date,
                                   !.rule_text = r.rule_text]
    /\ UNCHANGED <<schedVars, navVars, pass, ledgerVars, resolve, cmd, plan>>

\* ------------------------------------------- _resolve_settlement_nav
\* date.isoformat() of a date of 2024, as the text after "2024-"
Isoformat(ymd) ==
    <<ymd[2] \div 10, ymd[2] % 10, Dash, ymd[3] \div 10, ymd[3] % 10>>

\* the notes: "" is <<>>
NoteExact == <<>>
NoteQdii == <<"QDII +1 day">>
NoteFirstAfter(text) == <<"first available after expected date", text>>
NoteLatest(text) == <<"latest available", text>>
NoteNone == <<"no nav, profit at cost">>

\* the third and fourth branch, the cache being the one the calls before left
ResolveLater(db, fund_code, text, after, latest) ==
    IF after.rows # <<>>
    THEN [nav |-> after.rows,
          note |-> IF after.rows[1].nav_date # <<>> /\ after.rows[1].nav_date # text
                   THEN NoteFirstAfter(after.rows[1].nav_date) ELSE NoteExact,
          cache |-> after.cache]
    ELSE IF latest.rows # <<>>
    THEN [nav |-> latest.rows, note |-> NoteLatest(latest.rows[1].nav_date),
          cache |-> latest.cache]
    ELSE [nav |-> <<>>, note |-> NoteNone, cache |-> latest.cache]

\* the branches after the exact match failed; `cache` is what that call left
ResolveFallback(db, cache, fund_code, text, after) ==
    ResolveLater(db, fund_code, text, after,
                 ListFundNavHistory(db, after.cache, fund_code, <<>>, <<>>, 1))

\* the second branch: plus1 is the lookup of expected date + 1
ResolveQdii(db, fund_code, text, plus1) ==
    IF plus1.rows # <<>>
    THEN [nav |-> plus1.rows, note |-> NoteQdii, cache |-> plus1.cache]
    ELSE ResolveFallback(db, plus1.cache, fund_code, text,
                         GetNavOnOrAfter(db, plus1.cache, fund_code, text, <<>>))

\* the branches after the first: exact is the lookup of the expected date
ResolveAfterExact(db, fund_code, expected, is_qdii, exact) ==
    IF exact.rows # <<>>
    THEN [nav |-> exact.rows, note |-> NoteExact, cache |-> exact.cache]
    ELSE IF is_qdii
    THEN ResolveQdii(db, fund_code, Isoformat(expected),
                     GetNavOnOrAfter(db, exact.cache, fund_code,
                                     Isoformat(NextDay(expected)),
                                     Isoformat(NextDay(expected))))
    ELSE ResolveFallback(db, exact.cache, fund_code, Isoformat(expected),
                         GetNavOnOrAfter(db, exact.cache, fund_code,
                                         Isoformat(expected), <<>>))

\* FundAnalyzerPlugin._resolve_settlement_nav; nav is <<>> for None
ResolveSettlementNav(db, cache, fund_code, expected, is_qdii) ==
    ResolveAfterExact(db, fund_code, expected, is_qdii,
                      GetNavOnOrAfter(db, cache, fund_code, Isoformat(expected),
                                      Isoformat(expected)))

\* more date texts
D0 == <<0, 1, Dash, 0, 2>>                      \* "2024-01-02"
D1Next == <<0, 1, Dash, 0, 6>>                  \* "2024-01-06"
D1Third == <<0, 1, Dash, 0, 8>>                 \* "2024-01-08"

\* the NAV dates a fund may have on file, and the expected settlement dates
NavTexts == {D0, D1, D1Next, D1Third, D1Short, D3}
ExpectedDates == {<<2024, 1, 5>>, <<2024, 1, 31>>}

\* the records of the dates, each with the day of the month as its value
NavRecordsOf(texts) ==
    ByDateAsc({Rec(t, Num(Strptime(t)[2]), None, None) : t \in texts})

\* the store after the NAVs of the dates were upserted for fund 000001
StoreWith(db, texts) ==
    IF texts = {} THEN db
    ELSE Upsert(db, NoCache, "000001", NavRecordsOf(texts), "A",
                "scheduled:eastmoney", 1, 1).db

NoResolve ==
    [fund_code |-> "", expected |-> NoDate, is_qdii |-> FALSE, done |-> FALSE,
     nav |-> <<>>, note |-> <<>>]

ResolveIdle == resolve = NoResolve

ClearCmds == 1 .. MaxClearCmds

\* no clear command was received
NoPayload == [fund_code |-> "", share_mode |-> "", share_value |-> 0]

NoClear ==
    [pc |-> "idle", user |-> "", payload |-> NoPayload, target_code |-> "",
     holding_shares |-> 0, sell_shares |-> 0, fund_name |-> "",
     is_qdii |-> FALSE, expected |-> NoDate, nav |-> <<>>, note |-> <<>>,
     action |-> "", error |-> "", shares_after |-> 0,
     position_deleted |-> FALSE, log_id |-> 0]

ClearIdle == cmd = [i \in ClearCmds |-> NoClear]

\* no planning calculation made yet
NoPlan ==
    [op |-> "none", now |-> 0, start |-> 0, end |-> 0, interval |-> 0,
     trigger |-> NoTime, latest |-> <<>>, latest_day |-> NoDate,
     force_full |-> FALSE, today |-> NoDate, default_fetch_days |-> 0,
     max_fetch_days |-> 0, fetch_buffer_days |-> 0, given |-> <<0, 0, 0>>,
     days |-> 0]

PlanIdle == plan = NoPlan

PluginIdle == SettleIdle /\ ResolveIdle /\ ClearIdle /\ PlanIdle

\* a store with some NAVs of the fund, a settlement date to resolve
ResolveInit ==
    /\ \E db \in SeedDbs, texts \in SUBSET NavTexts : store = StoreWith(db, texts)
    /\ nav_partition_table_cache = NoCache
    /\ call = NoCall
    /\ pass = IdlePass
    /\ \E ymd \in ExpectedDates, is_qdii \in BOOLEAN :
         resolve = [NoResolve EXCEPT !.fund_code = "000001", !.expected = ymd,
                                     !.is_qdii = is_qdii]

ResolveCall ==
    /\ ~resolve.done
    /\ resolve.expected # NoDate
    /\ LET r == ResolveSettlementNav(store, nav_partition_table_cache,
                                     resolve.fund_code, resolve.expected,
                                     resolve.is_qdii)
       IN /\ resolve' = [resolve EXCEPT !.done = TRUE, !.nav = r.nav,
                                         !.note = r.note]
          /\ nav_partition_table_cache' = r.cache
    /\ UNCHANGED <<schedVars, store, call, pass, ledgerVars, settle, cmd, plan>>

\* ------------------------------------------ the clear / sell command
\* main.py, FundAnalyzerPlugin.clear_fund_position

\* FundAnalyzer.DEFAULT_FUND_CODE, what _get_user_fund returns for a user
\* who set no fund
DEFAULT_FUND_CODE == "161226"

\* 1e-4 shares, the digit _bankers_round(value, 4) keeps, in units of 5e-9
ROUND_UNIT == 20000

\* _bankers_round of n/d units: to the nearest ROUND_UNIT, a tie to the even one
BankersRound(n, d) ==
    LET q == n \div (d * ROUND_UNIT)
        r == n % (d * ROUND_UNIT)
    IN IF 2 * r < d * ROUND_UNIT THEN q * ROUND_UNIT
       ELSE IF 2 * r > d * ROUND_UNIT THEN (q + 1) * ROUND_UNIT
       ELSE IF q % 2 = 0 THEN q * ROUND_UNIT ELSE (q + 1) * ROUND_UNIT

\* the percent branch of resolve_sell_shares
ResolvePercent(holding, percent) ==
    IF percent <= 0 \/ percent > 100 THEN [error |-> "percent", shares |-> 0]
    ELSE IF BankersRound(holding * percent, 100) <= 0
    THEN [error |-> "too small", shares |-> 0]
    ELSE IF BankersRound(holding * percent, 100) > holding
    THEN [error |-> "", shares |-> holding]
    ELSE [error |-> "", shares |-> BankersRound(holding * percent, 100)]

\* PositionService.resolve_sell_shares
ResolveSellShares(holding, payload) ==
    IF holding <= 0 THEN [error |-> "no shares", shares |-> 0]
    ELSE IF payload.share_mode = "all" THEN [error |-> "", shares |-> holding]
    ELSE IF payload.share_mode = "shares"
    THEN IF payload.share_value <= 0 THEN [error |-> "not positive", shares |-> 0]
         ELSE IF payload.share_value > holding + EPSILON
         THEN [error |-> "exceeds holding", shares |-> 0]
         ELSE [error |-> "", shares |-> payload.share_value]
    ELSE IF payload.share_mode = "percent"
    THEN ResolvePercent(holding, payload.share_value)
    ELSE [error |-> "unknown mode", shares |-> 0]

\* DataHandler.list_positions: the user's positions joined with their funds
ListPositions(lg, user) ==
    {[fund_code |-> FundById(lg, p.fund_id).code,
      fund_name |-> FundById(lg, p.fund_id).name,
      shares |-> p.shares, avg_cost |-> p.avg_cost] :
        p \in {q \in lg.positions : q.user = user}}

\* the target code of the command: the payload's, the default fund if held,
\* the only fund held, or none
ClearTarget(codes, payload) ==
    IF payload.fund_code # "" THEN payload.fund_code
    ELSE IF DEFAULT_FUND_CODE \in codes THEN DEFAULT_FUND_CODE
    ELSE IF Cardinality(codes) = 1 THEN CHOOSE c \in codes : TRUE
    ELSE ""

\* the command suspended on its network calls, the holding read
ClearSuspended(user, payload, position, sell) ==
    IF sell.error # "" \/ sell.shares <= 0
    THEN [NoClear EXCEPT !.pc = "done", !.user = user, !.payload = payload,
                         !.error = "sell shares"]
    ELSE [NoClear EXCEPT !.pc = "syncing", !.user = user, !.payload = payload,
                         !.target_code = position.fund_code,
                         !.holding_shares = position.shares,
                         !.sell_shares = sell.shares,
                         !.fund_name = position.fund_name]

\* clear_fund_position up to its first await
ClearPrepare(lg, user, payload, positions, target_code) ==
    IF user = ""
    THEN [NoClear EXCEPT !.pc = "done", !.payload = payload, !.error = "no user"]
    ELSE IF positions = {}
    THEN [NoClear EXCEPT !.pc = "done", !.user = user, !.payload = payload,
                         !.error = "no positions"]
    ELSE IF target_code = ""
    THEN [NoClear EXCEPT !.pc = "done", !.user = user, !.payload = payload,
                         !.error = "specify the fund"]
    ELSE IF ~\E p \in positions : p.fund_code = target_code
    THEN [NoClear EXCEPT !.pc = "done", !.user = user, !.payload = payload,
                         !.target_code = target_code, !.error = "not held"]
    ELSE ClearSuspended(user, payload,
                        CHOOSE p \in positions : p.fund_code = target_code,
                        ResolveSellShares(
                            (CHOOSE p \in positions :
                                p.fund_code = target_code).shares, payload))

\* "clear" if float(sell_shares) >= holding_shares - 1e-8 else "sell"
ClearAction(sell_shares, holding_shares) ==
    IF sell_shares >= holding_shares - EPSILON THEN "clear" ELSE "sell"

\* the command after reduce_position_with_log returned or raised
ClearDone(c, is_qdii, expected, resolved, action, fund_name, reduced) ==
    [c EXCEPT !.pc = "done", !.is_qdii = is_qdii, !.expected = expected,
              !.nav = resolved.nav, !.note = resolved.note, !.action = action,
              !.fund_name = fund_name,
              !.error = reduced.raised,
              !.shares_after = reduced.shares_after,
              !.position_deleted = reduced.position_deleted,
              !.log_id = reduced.log_id]

\* the inputs of the command
ClearUsers == {"u1", ""}
ClearPayloads ==
    {[fund_code |-> "", share_mode |-> "all", share_value |-> 0],
     [fund_code |-> "000001", share_mode |-> "shares", share_value |-> 4],
     [fund_code |-> "000001", share_mode |-> "percent", share_value |-> 50],
     [fund_code |-> "000002", share_mode |-> "all", share_value |-> 0]}
ClearDays == {<<2024, 1, 3>>}
ClearTimes == {<<9, 30, 0>>, <<15, 0, 0>>}
InfoNames == {"", "A"}
CommandAdds == {AddRec("000001", Num(1), Num(4), "A")}

\* the NAVs on file before the command, those its sync pass may add
ClearStores == {EmptyDb, StoreWith(EmptyDb, {D1})}
SyncedTexts == {{}, {D1Next}}

\* the holdings before the commands
ClearLedgers ==
    {EmptyLedger,
     [funds |-> {FundOf(1, "000001", "A")},
      positions |-> {Position("u1", 1, 1, 8)}, logs |-> {}],
     [funds |-> {FundOf(1, "000001", "A")},
      positions |-> {Position("u1", 1, 1, 2 * ROUND_UNIT)}, logs |-> {}],
     [funds |-> {FundOf(1, "000001", "A"), FundOf(2, "000002", "")},
      positions |-> {Position("u1", 1, 1, 8), Position("u1", 2, 2, 4)},
      logs |-> {}]}

ClearInit ==
    /\ store \in ClearStores
    /\ nav_partition_table_cache = NoCache
    /\ call = NoCall
    /\ pass = IdlePass
    /\ ledger \in ClearLedgers
    /\ lcall = NoLedgerCall
    /\ ClearIdle

\* the command is received (the commands are numbered in that order): payload
\* parsed, holding read, shares to sell resolved; then it awaits
\* _sync_position_funds_nav
ClearBegin ==
    /\ \E i \in ClearCmds, user \in ClearUsers, payload \in ClearPayloads :
         /\ cmd[i].pc = "idle"
         /\ \A j \in 1 .. (i - 1) : cmd[j].pc # "idle"
         /\ cmd' = [cmd EXCEPT ![i] =
              ClearPrepare(ledger, user, payload, ListPositions(ledger, user),
                           ClearTarget({p.fund_code :
                                          p \in ListPositions(ledger, user)},
                                       payload))]
    /\ UNCHANGED <<schedVars, navVars, pass, ledgerVars, settle, resolve, plan>>

\* _sync_position_funds_nav returned: the NAVs it fetched are on file, or it
\* raised and the command carries on
ClearSync ==
    /\ \E i \in ClearCmds, texts \in SyncedTexts :
         /\ cmd[i].pc = "syncing"
         /\ LET r == Upsert(store, nav_partition_table_cache,
                            cmd[i].target_code, NavRecordsOf(texts), "",
                            "manual:eastmoney", 1, 1)
            IN /\ store' = r.db
               /\ nav_partition_table_cache' = r.cache
         /\ cmd' = [cmd EXCEPT ![i].pc = "fetching"]
    /\ UNCHANGED <<schedVars, call, pass, ledgerVars, settle, resolve, plan>>

\* the fund's info and its QDII flag arrived: settlement date, settlement
\* NAV, action, reduce_position_with_log
ClearFinish ==
    /\ \E i \in ClearCmds, info_name \in InfoNames, is_qdii \in BOOLEAN,
          ymd \in ClearDays, hms \in ClearTimes :
         /\ cmd[i].pc = "fetching"
         /\ LET fund_name == IF info_name # "" THEN info_name
                             ELSE IF cmd[i].fund_name # "" THEN cmd[i].fund_name
                             ELSE cmd[i].target_code
                expected == CalcExpectedSettlementDate(
                                [date |-> ymd, time |-> hms], is_qdii).expected_date
                resolved == ResolveSettlementNav(store, nav_partition_table_cache,
                                                 cmd[i].target_code, expected,
                                                 is_qdii)
                action == ClearAction(cmd[i].sell_shares, cmd[i].holding_shares)
                reduced == ReducePositionWithLog(ledger, cmd[i].user,
                                                 cmd[i].target_code,
                                                 Num(cmd[i].sell_shares), action,
                                                 fund_name, resolved.note)
            IN /\ nav_partition_table_cache' = resolved.cache
               /\ ledger' = reduced.lg
               /\ cmd' = [cmd EXCEPT ![i] =
                            ClearDone(cmd[i], is_qdii, expected, resolved,
                                      action, fund_name, reduced)]
    /\ UNCHANGED <<schedVars, store, call, pass, lcall, settle, resolve, plan>>

\* add_fund_positions of the same user: the records of the command are
\* handed to add_or_merge_positions
AddCommand ==
    /\ lcall.n < MaxLedgerCalls
    /\ \E rec \in CommandAdds :
         LET r == AddOrMergePositions(ledger, "u1", <<rec>>)
         IN /\ ledger' = r.lg
            /\ lcall' = [NoLedgerCall EXCEPT !.n = lcall.n + 1, !.op = "add_batch",
                                             !.user = "u1", !.records = <<rec>>,
                                             !.raised = r.raised]
    /\ LedgerQuiet

\* ------------------------------------------- the planning calculations
\* the defaults of NavSyncService.__init__
DEFAULT_FETCH_DAYS == 120
MAX_FETCH_DAYS == 365
FETCH_BUFFER_DAYS == 5

\* `x or default`: 0 and None give the default
OrDefault(x, default) == IF x = 0 THEN default ELSE x

\* __init__: self._default_fetch_days
DefaultFetchDays(default_fetch_days) ==
    Max(1, OrDefault(default_fetch_days, DEFAULT_FETCH_DAYS))

\* __init__: self._max_fetch_days
MaxFetchDays(default_fetch_days, max_fetch_days) ==
    Max(DefaultFetchDays(default_fetch_days),
        OrDefault(max_fetch_days, MAX_FETCH_DAYS))

\* __init__: self._fetch_buffer_days
FetchBufferDays(fetch_buffer_days) ==
    Max(1, OrDefault(fetch_buffer_days, FETCH_BUFFER_DAYS))

\* the date a text of the year 2024 parses to
DateOfText(text) == <<2024, Strptime(text)[1], Strptime(text)[2]>>

\* a window that grows with the gap without a cap
CalcNavFetchDaysUncapped(latest_nav_date, force_full, today, default, maxw, buffer) ==
    LET latest_date_text == NormalizeNavDateText(latest_nav_date)
        delta_days == Ordinal(today) - Ordinal(DateOfText(latest_date_text))
    IN IF force_full \/ latest_nav_date = <<>> THEN default
       ELSE IF latest_date_text = <<>> THEN default
       ELSE IF delta_days < 0 THEN default
       ELSE Max(buffer, delta_days + buffer)

\* _calc_nav_fetch_days: default, maxw and buffer are self._default_fetch_days,
\* self._max_fetch_days and self._fetch_buffer_days, today is
\* self._now().date()
CalcNavFetchDays(latest_nav_date, force_full, today, default, maxw, buffer) ==
    LET latest_date_text == NormalizeNavDateText(latest_nav_date)
        delta_days == Ordinal(today) - Ordinal(DateOfText(latest_date_text))
    IN IF force_full \/ latest_nav_date = <<>> THEN default
       ELSE IF latest_date_text = <<>> THEN default
       ELSE IF delta_days < 0 THEN default
       ELSE Max(buffer, Min(delta_days + buffer, maxw))

\* what get_latest_nav_date may hand over, with the day the text stands for:
\* nothing, a date, a date with a time, a date without padding, a text that
\* is no date
LatestDates ==
    {[text |-> <<>>, day |-> NoDate],
     [text |-> D1, day |-> <<2024, 1, 5>>],
     [text |-> D1Time, day |-> <<2024, 1, 5>>],
     [text |-> D1Short, day |-> <<2024, 1, 5>>],
     [text |-> D3, day |-> <<2024, 2, 1>>],
     [text |-> BadDate, day |-> NoDate]}

Todays ==
    {<<2024, 1, 5>>, <<2024, 1, 20>>, <<2024, 2, 1>>, <<2024, 12, 31>>,
     <<2025, 1, 10>>}

\* the constructor's arguments: 0 is an argument left out
GivenDefaults == {0, 7, -3}
GivenMaxima == {0, 3, 10}
GivenBuffers == {0, 2, 12}

\* _calc_nav_fetch_days of a service constructed with the given arguments;
\* the calculation keeps no state, and a behaviour makes one
FetchDaysCall ==
    /\ PlanIdle
    /\ \E latest \in LatestDates, force_full \in BOOLEAN, today \in Todays,
          d \in GivenDefaults, m \in GivenMaxima, b \in GivenBuffers :
         plan' = [NoPlan EXCEPT
                    !.op = "fetch_days",
                    !.latest = latest.text, !.latest_day = latest.day,
                    !.force_full = force_full, !.today = today,
                    !.given = <<d, m, b>>,
                    !.default_fetch_days = DefaultFetchDays(d),
                    !.max_fetch_days = MaxFetchDays(d, m),
                    !.fetch_buffer_days = FetchBufferDays(b),
                    !.days = CalcNavFetchDays(latest.text, force_full, today,
                                              DefaultFetchDays(d),
                                              MaxFetchDays(d, m),
                                              FetchBufferDays(b))]
    /\ UNCHANGED <<schedVars, navVars, pass, ledgerVars, settle, resolve, cmd>>

\* _calc_next_intraday_trigger for a window of the day and a reading of the
\* clock on that day; __init__ replaces a window with start > end
TriggerCall ==
    /\ PlanIdle
    /\ \E now \in 0 .. MaxNow, start \in 0 .. MaxNow, end \in 0 .. MaxNow,
          interval \in 1 .. MaxInterval :
         /\ start <= end
         /\ plan' = [NoPlan EXCEPT
                       !.op = "trigger", !.now = now, !.start = start,
                       !.end = end, !.interval = interval,
                       !.trigger = CalcNextIntradayTrigger(now, start, end,
                                                           interval)]
    /\ UNCHANGED <<schedVars, navVars, pass, ledgerVars, settle, resolve, cmd>>

\* ------------------------------------------------------- specifications
\* NavSyncService and DataHandler constructed, nothing called yet
Init == SchedInit /\ NavIdle /\ LedgerIdle /\ PluginIdle

Spec == Init /\ [][Next]_vars

\* the steps of the event loop on behalf of task t: the coroutine resumed
\* after its await ended (a timer ran out, a reply arrived, the lock was
\* granted, a CancelledError was delivered)
Resume(t) ==
    \/ PlannerWake(t)
    \/ PlannerClassify(t)
    \/ PlannerBackoff(t)
    \/ PlannerStartIntraday(t)
    \/ PlannerAwaitStartResume(t)
    \/ PlannerStopIntraday(t)
    \/ PlannerAwaitStopResume(t)
    \/ PlannerNonWorkdaySync(t)
    \/ PlannerSyncOk(t)
    \/ PlannerSyncErr(t)
    \/ SyncCall(t)
    \/ LockGranted(t)
    \/ PassNext(t)
    \/ FetchReturn(t)
    \/ IntradayTop(t)
    \/ IntradayWake(t)
    \/ IntradaySyncReturn(t)
    \/ ManualSyncReturn(t)
    \/ TaskCancelled(t)
    \/ t = Stopper /\ (StopResumeIntraday \/ StopResumeDaily)

\* the clock runs, and the event loop resumes every task whose await ended
\* (its ready queue is first in, first out: a task that is ready again and
\* again, between the steps of other tasks, is resumed); every network call
\* is answered or times out
TaskFairness == \A t \in Tasks : SF_vars(Resume(t) /\ StoreIdle)

Fairness == WF_vars(Tick /\ StoreIdle) /\ TaskFairness

\* the scheduler started and not stopped
LoopNext ==
    \/ Tick /\ StoreIdle
    \/ ensure_task /\ StoreIdle
    \/ \E p \in Planners : PlannerWake(p) /\ StoreIdle
    \/ \E p \in Planners : PlannerClassify(p) /\ StoreIdle
    \/ \E p \in Planners : PlannerBackoff(p) /\ StoreIdle
    \/ \E p \in Planners : PlannerStartIntraday(p) /\ StoreIdle
    \/ \E p \in Planners : PlannerAwaitStartResume(p) /\ StoreIdle
    \/ \E p \in Planners : PlannerStopIntraday(p) /\ StoreIdle
    \/ \E p \in Planners : PlannerAwaitStopResume(p) /\ StoreIdle
    \/ \E p \in Planners : PlannerNonWorkdaySync(p) /\ StoreIdle
    \/ \E p \in Planners : PlannerSyncOk(p) /\ StoreIdle
    \/ \E p \in Planners : PlannerSyncErr(p) /\ StoreIdle
    \/ \E t \in Tasks : SyncCall(t) /\ StoreIdle
    \/ \E t \in Tasks : LockGranted(t) /\ StoreIdle
    \/ \E t \in Tasks : PassNext(t) /\ StoreIdle
    \/ \E t \in Tasks : FetchReturn(t) /\ StoreIdle
    \/ \E i \in Intradays : IntradayTop(i) /\ StoreIdle
    \/ \E i \in Intradays : IntradayWake(i) /\ StoreIdle
    \/ \E i \in Intradays : IntradaySyncReturn(i) /\ StoreIdle
    \/ \E m \in Manuals : ManualCall(m) /\ StoreIdle
    \/ \E m \in Manuals : ManualSyncReturn(m) /\ StoreIdle
    \/ \E t \in Tasks : TaskCancelled(t) /\ StoreIdle

SpecLoop == Init /\ [][LoopNext]_vars /\ Fairness

NavNext ==
    \/ UpsertCall
    \/ ListCall
    \/ GetNavCall

\* the scheduler not started, the store seeded
InitNav == SchedInit /\ NavInit /\ LedgerIdle /\ PluginIdle

SpecNav == InitNav /\ [][NavNext]_vars

SyncPassNext ==
    \/ PassStart
    \/ PassFundInvalidCode
    \/ PassFundStorageError
    \/ PassFund
    \/ PassReturn

\* the scheduler not started, the funds registered, no pass begun
InitPass == SchedInit /\ PassInit /\ LedgerIdle /\ PluginIdle

SpecPass == InitPass /\ [][SyncPassNext]_vars

LedgerNext ==
    \/ AddCall
    \/ AddBatchCall
    \/ ReduceCall
    \/ ReduceWithLogCall
    \/ RepairCall
    \/ DeleteCall
    \/ ClearCall

\* the scheduler not started, the NAV store empty, the ledger seeded
InitLedger == SchedInit /\ NavIdle /\ LedgerInit /\ PluginIdle

SpecLedger == InitLedger /\ [][LedgerNext]_vars

SettleNext == CalcCall

\* nothing else of the plugin started, a trade to settle
InitSettle ==
    /\ SchedInit /\ NavIdle /\ LedgerIdle /\ SettleInit /\ ResolveIdle
    /\ ClearIdle /\ PlanIdle

SpecSettle == InitSettle /\ [][SettleNext]_vars

ResolveNext == ResolveCall

\* NAVs on file, a settlement date to resolve
InitResolve ==
    SchedInit /\ ResolveInit /\ LedgerIdle /\ SettleIdle /\ ClearIdle /\ PlanIdle

SpecResolve == InitResolve /\ [][ResolveNext]_vars

\* the clear command and the add command of the same user
ClearNext ==
    \/ ClearBegin
    \/ ClearSync
    \/ ClearFinish
    \/ AddCommand

\* the scheduler not started, NAVs on file, holdings, no command yet
InitClear == SchedInit /\ ClearInit /\ SettleIdle /\ ResolveIdle /\ PlanIdle

SpecClear == InitClear /\ [][ClearNext]_vars

\* the planning calculations of a service that was constructed
PlanNext ==
    \/ TriggerCall
    \/ FetchDaysCall

InitPlan == SchedInit /\ NavIdle /\ LedgerIdle /\ PluginIdle

SpecPlan == InitPlan /\ [][PlanNext]_vars

\* ================================================================ claims
InPass(t) == task[t].pc \in {"body", "fetch"}

\* C1: at every moment at most one task is inside the body of
\* _sync_funds_nav, whichever of the planner's non-workday pass, the intraday
\* passes and the manual callers are in flight; the task inside is the one
\* that holds the lock, and a caller queued behind it is not inside.
C1_SingleFlight ==
    /\ Cardinality({t \in Tasks : InPass(t)}) <= 1
    /\ \A t \in Tasks : InPass(t) => locked /\ holder = t
    /\ \A i \in DOMAIN waiters : ~InPass(waiters[i].t)

\* A pass is awaiting a history fetch while a second caller waits for the lock.
C1_Witness ==
    \E t, u \in Tasks :
        /\ t # u
        /\ task[t].pc = "fetch" /\ holder = t
        /\ task[u].pc = "lock_wait" /\ WaiterState(waiters, u) = "wait"

\* C2: for a day classified as a non-workday at most one scheduled pass runs
\* to its end, a day marked caught-up has had its pass, and no intraday loop
\* of a caught-up day is alive.
C2_OnePassPerNonWorkday ==
    \A d \in Days :
        /\ nwDone[d] <= 1
        /\ non_workday_synced_day = d => nwDone[d] = 1
        /\ non_workday_synced_day = d =>
               \A i \in Intradays : ~(Alive(i) /\ task[i].date = d)

\* C3: in every reachable state at most one planner task and at most one
\* intraday loop task is alive.
C3_OnePlannerOneLoop ==
    /\ Cardinality({p \in Planners : Alive(p)}) <= 1
    /\ Cardinality({i \in Intradays : Alive(i)}) <= 1

StopReturns ==
    \/ StopResumeDaily
    \/ StopCall /\ task'[Stopper].pc = "none"
    \/ StopResumeIntraday /\ task'[Stopper].pc = "none"

\* C4: in the state stop() returns in, no planner task and no intraday loop
\* task is alive.
C4_StopLeavesNothingRunning ==
    [][StopReturns => \A t \in Planners \cup Intradays : ~Alive(t)']_vars

\* C5: the sync lock is held only by a task that is alive inside the pass, so
\* a task that was cancelled and has finished holds nothing; the queue names
\* only tasks suspended in acquire; and a free lock with callers queued has
\* woken the first of them (or that one is itself about to leave), so a later
\* pass acquires the lock.
C5_CancelReleasesLock ==
    /\ locked => holder # NoTask /\ InPass(holder)
    /\ \A i \in DOMAIN waiters : task[waiters[i].t].pc = "lock_wait"
    /\ ~locked /\ waiters # <<>> => waiters[1].st # "wait"

\* A scheduler task was cancelled in the middle of a pass, has finished, and
\* another task is now inside a pass of its own.
C5_Witness ==
    \E t \in Planners \cup Intradays :
        /\ task[t].pc = "done" /\ task[t].at = "fetch"
        /\ \E u \in Tasks : u # t /\ InPass(u) /\ holder = u

\* a turn of the loop of _sync_funds_nav has been taken for one fund
FundTurn ==
    /\ pass.pc = "running" /\ pass.idx <= Len(pass.funds)
    /\ pass'.idx = pass.idx + 1

\* ... and get_lof_history gave None or an empty list in it
NoHistoryTurn ==
    /\ FundTurn
    /\ \/ pass'.hist.k = "none"
       \/ pass'.hist.k = "list" /\ pass'.hist.items = <<>>

\* errors[] after a message for the fund of this turn is added under the
\* limit of 20
ErrorsWith(what) ==
    IF Len(pass.stats.errors) < 20
    THEN pass.stats.errors \o <<[code |-> ThisCode, what |-> what, date |-> <<>>]>>
    ELSE pass.stats.errors

\* C6 as stated: when get_lof_history returns None or an empty list for a
\* fund, the fund is counted in funds_no_new_data, funds_failed is not
\* incremented and nothing is added to errors[].
C6_NoHistoryIsNoNewData ==
    [][NoHistoryTurn =>
         /\ pass'.stats.funds_no_new_data = pass.stats.funds_no_new_data + 1
         /\ pass'.stats.funds_failed = pass.stats.funds_failed
         /\ pass'.stats.errors = pass.stats.errors]_vars

\* C6, amended: when get_lof_history returns None or an empty list for a
\* fund, the fund is counted in funds_failed, the message "<code> no history"
\* is added to errors[] while it holds fewer than 20 entries,
\* funds_no_new_data is not incremented, nothing is stored and the pass goes
\* on to the next fund.
C6_NoHistoryIsFailure ==
    [][NoHistoryTurn =>
         /\ pass'.stats.funds_failed = pass.stats.funds_failed + 1
         /\ pass'.stats.errors = ErrorsWith("no history")
         /\ pass'.stats.funds_no_new_data = pass.stats.funds_no_new_data
         /\ pass'.stats.funds_synced = pass.stats.funds_synced
         /\ pass'.pc = "running"
         /\ store' = store]_vars

C6_Witness ==
    /\ pass.pc = "returned"
    /\ pass.hist.k = "none"
    /\ pass.last = "no_history"
    /\ pass.stats.funds_failed = 1
    /\ pass.stats.funds_no_new_data = 0
    /\ Len(pass.stats.errors) = 1

\* the fund of this turn failed: get_lof_history raised, or
\* upsert_fund_nav_history raised on the batch
FailedTurn ==
    /\ FundTurn
    /\ pass'.last \in {"fetch_raised", "upsert_failed"}

\* the message of the failure is the last thing added to errors[] in the
\* turn (the rows skipped while the records were built come before it), and
\* it is added unless errors[] holds 20 entries by then
FailureRecorded ==
    LET old == pass.stats.errors
        new == pass'.stats.errors
    IN /\ Len(new) <= 20
       /\ Len(new) >= Len(old)
       /\ SubSeq(new, 1, Len(old)) = old
       /\ pass'.hist.k = "raise" => new = ErrorsWith("exception")
       /\ Len(new) < 20 =>
             /\ Len(new) > Len(old)
             /\ new[Len(new)].code = ThisCode
             /\ new[Len(new)].what \in {"exception", "ValueError", "IntegrityError"}

\* the counters of a pass that returned account for every fund of the list
AllFundsProcessed ==
    /\ pass.idx = Len(pass.funds) + 1
    /\ pass.stats.funds_synced + pass.stats.funds_no_new_data
         + pass.stats.funds_failed = pass.stats.funds_total
    /\ pass.stats.funds_total = Len(pass.funds)

\* C7: a fund whose fetch raises or whose upsert is rejected is counted in
\* funds_failed and gets a message in errors[] while errors[] holds fewer
\* than 20 entries; the pass then goes on with the next fund, and a pass
\* returns its statistics only after every fund of the list had its turn.
C7_FundFailureIsolated ==
    [][/\ FailedTurn =>
            /\ pass'.stats.funds_failed = pass.stats.funds_failed + 1
            /\ FailureRecorded
            /\ pass'.stats.funds_synced = pass.stats.funds_synced
            /\ pass'.stats.funds_no_new_data = pass.stats.funds_no_new_data
            /\ pass'.pc = "running"
            /\ pass'.funds = pass.funds
       /\ (pass.pc = "running" /\ pass'.pc = "returned") =>
            /\ AllFundsProcessed
            /\ pass'.stats = pass.stats
       /\ (pass.pc = "running" /\ pass'.pc = "raised") =>
            pass'.last = "storage_error"]_vars

\* a pass returned whose first fund failed in the fetch and whose last fund
\* was synced
C7_Witness ==
    /\ pass.pc = "returned"
    /\ Len(pass.funds) >= 2
    /\ pass.stats.funds_failed >= 1
    /\ pass.stats.errors # <<>>
    /\ pass.stats.errors[1].what \in {"exception", "IntegrityError"}
    /\ pass.stats.errors[1].code = "000001"
    /\ pass.last = "synced"
    /\ pass.stats.funds_synced = 1

\* ------------------------------------------------------------ C8, C9, C10
UpsertDone == call'.n = call.n + 1 /\ call'.op = "upsert"

\* the record has a malformed or empty date, or a unit_nav that is not a
\* positive number
InvalidRecord(rec) ==
    \/ NormalizeNavDate(rec.nav_date).err # ""
    \/ rec.unit_nav.k # "num"
    \/ rec.unit_nav.v <= 0

KeyOf(rec) == NormalizeNavDate(rec.nav_date).text

\* the last record of the batch with the date of record i
LastOfKey(batch, i) ==
    LET same == {j \in DOMAIN batch : KeyOf(batch[j]) = KeyOf(batch[i])}
    IN batch[CHOOSE j \in same : \A k \in same : k <= j]

RowsOfKey(db, code, text) ==
    {r \in db.rows : r.tbl # Legacy /\ r.code = code /\ r.nav_date = text}

\* C8: a call of upsert_fund_nav_history whose batch holds an invalid record
\* raises and leaves the funds, the partitions and the NAV rows as they were;
\* a call whose records are all valid raises nothing and afterwards the store
\* holds, for every record, the fund, the partition of its month and a row of
\* its date with the values of the batch.
C8_AllOrNothing ==
    [][UpsertDone =>
        LET batch == call'.nav_records
            code == NormalizeFundCode(call'.fund_code)
        IN IF \E i \in DOMAIN batch : InvalidRecord(batch[i])
           THEN call'.raised # "" /\ store' = store
           ELSE /\ call'.raised = ""
                /\ call'.affected = Len(batch)
                /\ \A i \in DOMAIN batch :
                      LET text == KeyOf(batch[i])
                          tbl == Strptime(text)[1]
                          last == LastOfKey(batch, i)
                      IN /\ HasFund(store', code)
                         /\ tbl \in store'.tables
                         /\ \E r \in store'.rows :
                               /\ r.tbl = tbl /\ r.code = code /\ r.nav_date = text
                               /\ r.unit_nav = last.unit_nav.v
                               /\ r.updated_at = call'.now_ts]_vars

\* A batch of a valid record followed by an invalid one was rejected, from a
\* store that already held rows.
C8_Witness ==
    /\ call.op = "upsert" /\ call.raised # ""
    /\ Len(call.nav_records) = 2
    /\ ~InvalidRecord(call.nav_records[1])
    /\ InvalidRecord(call.nav_records[2])
    /\ store.rows # {} /\ store.tables # {}

\* C9: after a successful upsert every key of the batch has exactly one row;
\* a row that existed before keeps its created_at, has unit_nav, accum_nav,
\* change_rate and updated_at of the call, and has the call's source unless
\* that is empty, in which case it keeps the source it had.
C9_UpsertInPlace ==
    [][UpsertDone /\ call'.raised = "" =>
        LET batch == call'.nav_records
            code == NormalizeFundCode(call'.fund_code)
        IN \A i \in DOMAIN batch :
              LET text == KeyOf(batch[i])
                  last == LastOfKey(batch, i)
                  before == RowsOfKey(store, code, text)
                  after == RowsOfKey(store', code, text)
              IN /\ Cardinality(after) = 1
                 /\ \A r \in after :
                       /\ r.unit_nav = last.unit_nav.v
                       /\ r.accum_nav = OptionalFloat(last.accum_nav)
                       /\ r.change_rate = OptionalFloat(last.change_rate)
                       /\ r.updated_at = call'.now_ts
                       /\ \A o \in before :
                             /\ r.created_at = o.created_at
                             /\ r.source = IF call'.source # "" THEN call'.source
                                           ELSE o.source
                       /\ before = {} => r.source = call'.source]_vars

\* A row written with a source was upserted again, at another time, with a
\* different unit_nav and an empty source.
C9_Witness ==
    /\ call.n = 2 /\ call.op = "upsert" /\ call.raised = "" /\ call.source = ""
    /\ \E i \in DOMAIN call.nav_records :
          \E r \in RowsOfKey(store, "000001", KeyOf(call.nav_records[i])) :
              /\ r.source # ""
              /\ r.created_at # r.updated_at
              /\ r.unit_nav = 2

\* the partition tables a range query reads
ReadByQuery(tbl) ==
    LET from == IF call.start_date = <<>> THEN <<>>
                ELSE NormalizeNavDate(call.start_date).text
        to == IF call.end_date = <<>> THEN <<>>
              ELSE NormalizeNavDate(call.end_date).text
    IN /\ from = <<>> \/ tbl >= Strptime(from)[1]
       /\ to = <<>> \/ tbl <= Strptime(to)[1]

\* C10 as claimed: the record a range query returns for a date has a greater
\* updated_at than every other record of that fund and date in another
\* segment, or the same updated_at and the later segment (the legacy table
\* being the last).
C10_GreaterUpdatedAtWins ==
    call.op = "list" =>
        \A i \in DOMAIN call.rows :
            \A q \in store.rows :
                /\ q.code = call.rows[i].code
                /\ q.nav_date = call.rows[i].nav_date
                /\ q.tbl # call.rows[i].tbl
                => \/ call.rows[i].updated_at > q.updated_at
                   \/ /\ call.rows[i].updated_at = q.updated_at
                      /\ call.rows[i].tbl > q.tbl

\* C10 as amended: the record a range query returns for a date is the one of
\* the monthly partition whenever a partition the query reads holds that
\* date, whatever the updated_at of the legacy table's record.
C10_PartitionWins ==
    call.op = "list" =>
        \A i \in DOMAIN call.rows :
            \A q \in store.rows :
                /\ q.code = call.rows[i].code
                /\ q.nav_date = call.rows[i].nav_date
                /\ q.tbl # Legacy
                /\ ReadByQuery(q.tbl)
                => call.rows[i] = q

\* A range query returned the partition's record of a date whose record in
\* the legacy table has the greater updated_at.
C10_Witness ==
    /\ call.op = "list"
    /\ \E i \in DOMAIN call.rows :
          /\ call.rows[i].tbl # Legacy
          /\ \E q \in store.rows :
                /\ q.tbl = Legacy
                /\ q.code = call.rows[i].code
                /\ q.nav_date = call.rows[i].nav_date
                /\ q.updated_at > call.rows[i].updated_at

\* the calendar day a date text names, <<month, day>>, and the order of days
DayOf(text) == Strptime(text)
DayLeq(a, b) == a[1] < b[1] \/ (a[1] = b[1] /\ a[2] <= b[2])

\* a range query was answered: list_fund_nav_history returned for a fund
ListDone ==
    /\ call.op = "list" /\ call.raised = ""
    /\ NormalizeFundCode(call.fund_code) # ""

\* the bounds of the query as texts, <<>> for None
QueryFrom ==
    IF call.start_date = <<>> THEN <<>> ELSE NormalizeNavDate(call.start_date).text
QueryTo ==
    IF call.end_date = <<>> THEN <<>> ELSE NormalizeNavDate(call.end_date).text

\* the day of the row lies in the range [start, end] of the query
InRange(r) ==
    /\ QueryFrom = <<>> \/ DayLeq(DayOf(QueryFrom), DayOf(r.nav_date))
    /\ QueryTo = <<>> \/ DayLeq(DayOf(r.nav_date), DayOf(QueryTo))

\* the rows stored for the fund of the query, in any table
FundRows == {r \in store.rows : r.code = NormalizeFundCode(call.fund_code)}

Returned(r) == \E i \in DOMAIN call.rows : call.rows[i] = r

\* C11: a record upserted into the partition of its month is returned by
\* every range query whose range holds its day, the unbounded one included,
\* when the limit is not below the number of the fund's rows in the range;
\* and it is not returned by a query whose range leaves out its month.
C11_PartitionRoundTrip ==
    ListDone =>
        \A r \in FundRows :
            r.tbl # Legacy =>
                /\ (/\ InRange(r)
                    /\ Cardinality({q \in FundRows : InRange(q)})
                          <= QueryLimit(call.limit))
                   => Returned(r)
                /\ ~ReadByQuery(r.tbl) => ~Returned(r)

\* the days the query returned, and the days stored for the fund in range
ReturnedDays == {DayOf(call.rows[i].nav_date) : i \in DOMAIN call.rows}
StoredDays == {DayOf(r.nav_date) : r \in {q \in FundRows : InRange(q)}}

\* C12: list_fund_nav_history returns every day at most once, the later day
\* first, no more records than the limit, and the days returned are the
\* min(limit, n) latest of the n days stored for the fund in the range, over
\* the monthly partitions and the legacy table.
C12_ListMostRecent ==
    ListDone =>
        /\ \A i, j \in DOMAIN call.rows :
              i < j => /\ DayOf(call.rows[i].nav_date) # DayOf(call.rows[j].nav_date)
                       /\ DayLeq(DayOf(call.rows[j].nav_date),
                                 DayOf(call.rows[i].nav_date))
        /\ Len(call.rows) <= QueryLimit(call.limit)
        /\ ReturnedDays \subseteq StoredDays
        /\ Cardinality(ReturnedDays)
              = Min(QueryLimit(call.limit), Cardinality(StoredDays))
        /\ \A d \in StoredDays \ ReturnedDays :
              \A e \in ReturnedDays : DayLeq(d, e)

\* get_nav_on_or_after returned for a fund
GetNavDone ==
    /\ call.op = "on_or_after" /\ call.raised = ""
    /\ NormalizeFundCode(call.fund_code) # ""

\* C13: get_nav_on_or_after returns a record of the fund whose day is the
\* earliest of the days not before start (and not after end, when given)
\* among the fund's rows in every monthly partition and the legacy table, and
\* it returns nothing exactly when no row has such a day.
C13_EarliestOnOrAfter ==
    GetNavDone =>
        LET hits == {r \in FundRows : InRange(r)}
        IN /\ call.rows = <<>> <=> hits = {}
           /\ call.rows # <<>> =>
                 /\ call.rows[1] \in hits
                 /\ \A r \in hits :
                       DayLeq(DayOf(call.rows[1].nav_date), DayOf(r.nav_date))


\* ---------------------------------------------------------------- ledger
\* the last call was a reduction that succeeded
Reduced == lcall.op \in {"reduce", "reduce_with_log"} /\ lcall.raised = ""

\* the shares the last reduction asked to sell
Sold == lcall.shares.v

\* the caller still holds a position of the fund of the last call
StillHeld ==
    HasPositionByCode(ledger, lcall.user, NormalizeFundCode(lcall.fund_code))

\* C14: every stored position row has shares > 0 in every reachable state of
\* the ledger, whatever sequence of adds, batches, reductions, repairs,
\* deletes and clears led to it; and a reduction that leaves no more than
\* epsilon shares deletes the row instead of storing it.
C14_SharesPositive ==
    /\ \A p \in ledger.positions : p.shares > 0
    /\ (Reduced /\ lcall.shares_before - Sold <= EPSILON) => ~StillHeld

\* a reduction left exactly epsilon shares, which is positive, and the row
\* is gone
C14_Witness ==
    /\ Reduced
    /\ lcall.shares_before - Sold = EPSILON
    /\ lcall.position_deleted
    /\ ~StillHeld


\* the codes funds are stored under by the ledger API
CanonCodes == {"000001", "000002"}

\* the step is a successful add_or_merge_position or add_or_merge_positions
Added == lcall'.op \in {"add", "add_batch"} /\ lcall'.raised = ""

\* the sum of shares_i, and of cost_i * shares_i, over the records of a fund
RECURSIVE SumShares(_, _)
SumShares(records, code) ==
    IF records = <<>> THEN 0
    ELSE (IF NormalizeFundCode(Head(records).fund_code) = code
          THEN Head(records).shares.v ELSE 0) + SumShares(Tail(records), code)

RECURSIVE SumCost(_, _)
SumCost(records, code) ==
    IF records = <<>> THEN 0
    ELSE (IF NormalizeFundCode(Head(records).fund_code) = code
          THEN Head(records).avg_cost.v * Head(records).shares.v ELSE 0)
         + SumCost(Tail(records), code)

\* what a user holds of a fund: shares (0 for no position) and cost
HeldShares(lg, user, code) ==
    IF HasPositionByCode(lg, user, code) THEN PositionByCode(lg, user, code).shares
    ELSE 0

HeldCost(lg, user, code) ==
    IF HasPositionByCode(lg, user, code) THEN PositionByCode(lg, user, code).avg_cost
    ELSE <<0, 1>>

\* C15: weighted-average merge.  A successful add of the records
\* (cost_i, shares_i) of a fund, in one add_or_merge_position call or as
\* records of one add_or_merge_positions batch in any order and between
\* records of other funds, takes a holding of h shares at cost a (h = 0
\* for no position) to shares h + sum(shares_i) at cost
\* (a * h + sum(cost_i * shares_i)) / (h + sum(shares_i)), and leaves the
\* funds without a record as they were.  From no position this is
\* sum(shares_i) at sum(cost_i * shares_i) / sum(shares_i) after any sequence
\* of adds, the sums not depending on order or on the split into calls.
C15_WeightedAverageMerge ==
    [][Added =>
         \A code \in CanonCodes :
            LET h == HeldShares(ledger, lcall'.user, code)
                a == HeldCost(ledger, lcall'.user, code)
                shares == SumShares(lcall'.records, code)
                cost == SumCost(lcall'.records, code)
            IN /\ HeldShares(ledger', lcall'.user, code) = h + shares
               /\ HeldCost(ledger', lcall'.user, code) =
                     IF shares = 0 THEN a
                     ELSE Frac(a[1] * h + cost * a[2], a[2] * (h + shares))]_vars

\* (1.0, 2 units) and (2.0, 2 units) of fund 000001, a record of fund 000002
\* between them in one batch, added to no position: cost 3/2, 4 units
C15_Witness ==
    /\ lcall.n = 1
    /\ lcall.op = "add_batch"
    /\ lcall.raised = ""
    /\ lcall.records = <<AddRec("1", Num(1), Num(2), "A"),
                          AddRec("2", Num(1), Num(4), ""),
                          AddRec("000001", Num(2), Num(2), "")>>
    /\ HeldShares(ledger, lcall.user, "000001") = 4
    /\ HeldCost(ledger, lcall.user, "000001") = <<3, 2>>


\* the step is a call of reduce_position or reduce_position_with_log
Reducing == lcall'.op \in {"reduce", "reduce_with_log"}

\* the fund the step's call names
CalledCode == NormalizeFundCode(lcall'.fund_code)

\* the call names an action, where it takes one
ActionGiven == lcall'.op = "reduce_with_log" => lcall'.action # ""

\* the shares asked for are a number s with 0 < s <= h + epsilon
WithinHolding ==
    /\ lcall'.shares.k = "num"
    /\ 0 < lcall'.shares.v
    /\ lcall'.shares.v <= HeldShares(ledger, lcall'.user, CalledCode) + EPSILON

\* C16: reduction boundary.  Reducing a position of h shares by s (the
\* call otherwise well formed) succeeds iff the position exists and
\* 0 < s <= h + epsilon.  On success with h - s <= epsilon the row is
\* deleted and the result reports shares_after = 0 and position_deleted;
\* otherwise the row holds h - s at the same avg_cost.  A call that fails,
\* s above h + epsilon, s not positive, or no position, leaves positions and
\* logs as they were.
C16_ReductionBoundary ==
    [][Reducing =>
         LET h == HeldShares(ledger, lcall'.user, CalledCode)
             s == lcall'.shares.v
         IN /\ ActionGiven =>
                 (lcall'.raised = ""
                    <=> HasPositionByCode(ledger, lcall'.user, CalledCode)
                        /\ WithinHolding)
            /\ (lcall'.raised = "" /\ h - s <= EPSILON) =>
                 /\ ~HasPositionByCode(ledger', lcall'.user, CalledCode)
                 /\ lcall'.shares_after = 0
                 /\ lcall'.position_deleted
            /\ (lcall'.raised = "" /\ h - s > EPSILON) =>
                 /\ HeldShares(ledger', lcall'.user, CalledCode) = h - s
                 /\ HeldCost(ledger', lcall'.user, CalledCode)
                      = HeldCost(ledger, lcall'.user, CalledCode)
                 /\ lcall'.shares_after = h - s
                 /\ ~lcall'.position_deleted
            /\ lcall'.raised # "" =>
                 /\ ledger'.positions = ledger.positions
                 /\ ledger'.logs = ledger.logs]_vars

\* a reduction by exactly h + epsilon went through and deleted the row
C16_Witness ==
    /\ Reduced
    /\ Sold = lcall.shares_before + EPSILON
    /\ lcall.shares_after = 0
    /\ lcall.position_deleted
    /\ ~StillHeld


\* the step is a call of reduce_position_with_log
ReducingWithLog == lcall'.op = "reduce_with_log"

\* the log rows the step inserted
NewLogs == ledger'.logs \ ledger.logs

\* |n|
Abs(n) == IF n < 0 THEN 0 - n ELSE n

\* C17: reduce_position_with_log changes the position and the log as one
\* unit.  A successful call appends exactly one log row, of the caller and
\* the fund, whose shares_before is the holding read, shares_delta is minus
\* the shares sold, shares_after is the holding stored afterwards (0 when the
\* row was deleted) and avg_cost is the position's; the rows that were there
\* stay.  A failed call appends no row and leaves the positions unchanged.
\* So shares_before + shares_delta = shares_after up to epsilon in every row
\* it writes.
C17_ReduceWithLogAtomic ==
    [][ReducingWithLog =>
         IF lcall'.raised # ""
         THEN ledger'.logs = ledger.logs /\ ledger'.positions = ledger.positions
         ELSE /\ Cardinality(NewLogs) = 1
              /\ ledger.logs \subseteq ledger'.logs
              /\ \A l \in NewLogs :
                   /\ l.id = lcall'.log_id
                   /\ l.user = lcall'.user
                   /\ l.fund_id = LedgerFund(ledger, CalledCode).id
                   /\ l.action = lcall'.action
                   /\ l.shares_before = HeldShares(ledger, lcall'.user, CalledCode)
                   /\ l.shares_delta = 0 - lcall'.shares.v
                   /\ l.shares_after = HeldShares(ledger', lcall'.user, CalledCode)
                   /\ l.avg_cost = HeldCost(ledger, lcall'.user, CalledCode)
                   /\ Abs(l.shares_before + l.shares_delta - l.shares_after)
                        <= EPSILON]_vars

\* a logged reduction deleted a row that had a remainder within epsilon:
\* its log row says shares_after = 0, not shares_before + shares_delta
C17_Witness ==
    /\ lcall.op = "reduce_with_log"
    /\ lcall.raised = ""
    /\ lcall.position_deleted
    /\ \E l \in ledger.logs :
         /\ l.id = lcall.log_id
         /\ l.shares_after = 0
         /\ l.shares_before + l.shares_delta # 0


\* the log row `m` is the row `l` with at most its fund_id changed
SameButFund(l, m) == m.id = l.id /\ [m EXCEPT !.fund_id = l.fund_id] = l

\* the step is a repair of the user of `l` that moved `l` from a fund it
\* replaced to the fund of the canonical code
Relinked(l, m) ==
    /\ lcall'.op = "repair"
    /\ l.user = lcall'.user
    /\ FundById(ledger, l.fund_id).code # FundById(ledger', m.fund_id).code
    /\ NormalizeFundCode(FundById(ledger, l.fund_id).code)
         = FundById(ledger', m.fund_id).code

\* C18 as claimed: the position log is append-only, no ledger operation
\* changes a field of a log row or deletes it.
C18_LogAppendOnly == [][ledger.logs \subseteq ledger'.logs]_vars

\* C18: the position log is append-only but for the link to the fund.  No
\* ledger operation deletes a log row or changes a field of it other than
\* fund_id, and fund_id is changed only by repair_user_position_funds, for
\* rows of the repaired user, from a fund id it replaced to the id of the
\* fund of the canonical code; the set of log row ids only grows.
C18_LogAppendOnlyButFundId ==
    [][\A l \in ledger.logs :
         \E m \in ledger'.logs :
            /\ SameButFund(l, m)
            /\ m.fund_id # l.fund_id => Relinked(l, m)]_vars

\* a repair has relinked log rows, and operations went on after log rows
\* existed
C18_Witness ==
    /\ lcall.op = "repair"
    /\ lcall.stats.logs_relinked > 0
    /\ \E l \in ledger.logs :
         l.user = lcall.user /\ FundById(ledger, l.fund_id).code \in CanonCodes


\* the step is a repair_user_position_funds that no fund failed in
Repaired ==
    lcall'.op = "repair" /\ lcall'.raised = "" /\ lcall'.stats.failed = 0

\* the positions of a user, and those whose fund's code has the canonical
\* form `code`
PositionsOfUser(lg, user) == {p \in lg.positions : p.user = user}

CanonOf(lg, p) == NormalizeFundCode(FundById(lg, p.fund_id).code)

PositionsAt(lg, user, code) ==
    {p \in PositionsOfUser(lg, user) : CanonOf(lg, p) = code}

\* sum of shares, and of avg_cost * shares as a fraction, over positions
RECURSIVE TotalShares(_)
TotalShares(ps) ==
    IF ps = {} THEN 0
    ELSE LET p == CHOOSE q \in ps : TRUE
         IN p.shares + TotalShares(ps \ {p})

AddFrac(a, b) == Frac(a[1] * b[2] + b[1] * a[2], a[2] * b[2])

RECURSIVE TotalCost(_)
TotalCost(ps) ==
    IF ps = {} THEN <<0, 1>>
    ELSE LET p == CHOOSE q \in ps : TRUE
         IN AddFrac(Frac(p.avg_cost[1] * p.shares, p.avg_cost[2]),
                    TotalCost(ps \ {p}))

\* the fund ids the repair replaced: those of the user's positions whose
\* fund did not have the canonical code
Replaced(lg, user) ==
    {p.fund_id : p \in {q \in PositionsOfUser(lg, user) :
                          FundById(lg, q.fund_id).code # CanonOf(lg, q)}}

\* C19: after a repair_user_position_funds that no fund failed in, every
\* position of the user is linked to the fund whose code is the canonical
\* form of the code it had, one position for each such code: a position
\* whose canonical fund already had a position of the user is merged into it
\* by the weighted-average rule and is gone, another is relinked; the
\* user's total shares and total cost (avg_cost * shares) for each
\* canonical code are what they were; and every log row of the user that
\* pointed at a replaced fund id points at the canonical fund's id.
C19_RepairLinksToCanonical ==
    [][Repaired =>
         LET user == lcall'.user
         IN /\ \A p \in PositionsOfUser(ledger', user) :
                  FundById(ledger', p.fund_id).code = CanonOf(ledger', p)
            /\ \A code \in CanonCodes :
                  LET before == PositionsAt(ledger, user, code)
                      after == PositionsAt(ledger', user, code)
                  IN /\ Cardinality(after) = IF before = {} THEN 0 ELSE 1
                     /\ TotalShares(after) = TotalShares(before)
                     /\ TotalCost(after) = TotalCost(before)
            /\ lcall'.stats.positions_merged + lcall'.stats.positions_relinked
                 = Cardinality(Replaced(ledger, user))
            /\ \A l \in ledger.logs :
                  (l.user = user /\ l.fund_id \in Replaced(ledger, user)) =>
                     \E m \in ledger'.logs :
                        /\ SameButFund(l, m)
                        /\ m.fund_id
                             = LedgerFund(ledger',
                                 NormalizeFundCode(FundById(ledger, l.fund_id).code)).id]_vars

\* a repair relinked one position to a fund it created, merged another into
\* it and relinked the log rows of both
C19_Witness ==
    /\ lcall.op = "repair"
    /\ lcall.stats.failed = 0
    /\ lcall.stats.positions_relinked = 1
    /\ lcall.stats.positions_merged = 1
    /\ lcall.stats.logs_relinked = 2
    /\ Cardinality(PositionsOfUser(ledger, lcall.user)) = 1


\* -------------------------------------------------------- settlement date
\* date.weekday(): Monday is 0; 1 January 2023 was a Sunday
Weekday(ymd) == (Ordinal(ymd) + 5) % 7

\* the seconds of a time of day
SecondOfDay(hms) == hms[1] * 3600 + hms[2] * 60 + hms[3]

\* the offset the claim gives a trade
ClaimedOffset ==
    IF SecondOfDay(settle.trade_time.time) < 15 * 3600
    THEN (IF settle.is_qdii THEN 2 ELSE 1)
    ELSE (IF settle.is_qdii THEN 3 ELSE 2)

\* C20: the expected settlement date is the trade date plus a number of
\* calendar days that depends only on the trade time and the fund class:
\* before 15:00, 1 day for an ordinary fund and 2 for a QDII fund; from
\* 15:00:00 on, 2 and 3 days; weekends and holidays are not skipped, the
\* date is that many days later whatever day of the week it is.
C20_SettlementOffset ==
    settle.done =>
        Ordinal(settle.expected_date) - Ordinal(settle.trade_time.date)
            = ClaimedOffset

\* a trade of an ordinary fund at 15:00:00 sharp on Friday 5 January 2024
\* is expected on Sunday 7 January
C20_Witness ==
    /\ settle.done
    /\ ~settle.is_qdii
    /\ settle.trade_time = [date |-> <<2024, 1, 5>>, time |-> <<15, 0, 0>>]
    /\ Weekday(settle.trade_time.date) = 4
    /\ settle.expected_date = <<2024, 1, 7>>
    /\ Weekday(settle.expected_date) = 6


\* ------------------------------------------------------ settlement NAV
\* <<month, day>> of a date
MonthDay(ymd) == <<ymd[2], ymd[3]>>

\* the NAV rows of the fund being resolved, and those of a day
ResolveRows == {r \in store.rows : r.code = resolve.fund_code}
RowsOn(md) == {r \in ResolveRows : DayOf(r.nav_date) = md}
RowsFrom(md) == {r \in ResolveRows : DayLeq(md, DayOf(r.nav_date))}

\* the day of the NAV returned
ResolvedDay == DayOf(resolve.nav[1].nav_date)

\* C21: settlement NAV resolution takes the first branch that matches:
\* the NAV dated on the expected date; for a QDII fund the NAV dated the day
\* after; the earliest NAV dated on or after the expected date, with the
\* "first available after expected date" note; the latest NAV on file, with
\* the "latest available" note; no NAV.
C21_FirstMatchingBranch ==
    resolve.done =>
        LET expected == MonthDay(resolve.expected)
            plus1 == MonthDay(NextDay(resolve.expected))
        IN IF RowsOn(expected) # {}
           THEN resolve.nav # <<>> /\ ResolvedDay = expected
           ELSE IF resolve.is_qdii /\ RowsOn(plus1) # {}
           THEN /\ resolve.nav # <<>> /\ ResolvedDay = plus1
                /\ resolve.note = NoteQdii
           ELSE IF RowsFrom(expected) # {}
           THEN /\ resolve.nav # <<>>
                /\ resolve.nav[1].nav_date \in {r.nav_date : r \in RowsFrom(expected)}
                /\ \A r \in RowsFrom(expected) : DayLeq(ResolvedDay, DayOf(r.nav_date))
                /\ resolve.note = NoteFirstAfter(resolve.nav[1].nav_date)
           ELSE IF ResolveRows # {}
           THEN /\ resolve.nav # <<>>
                /\ resolve.nav[1].nav_date \in {r.nav_date : r \in ResolveRows}
                /\ \A r \in ResolveRows : DayLeq(DayOf(r.nav_date), ResolvedDay)
                /\ resolve.note = NoteLatest(resolve.nav[1].nav_date)
           ELSE resolve.nav = <<>> /\ resolve.note = NoteNone

\* the dates on file are all written YYYY-MM-DD
Padded == \A r \in ResolveRows : Len(r.nav_date) = DateWidth - YearDigits

\* C21 where every date on file is written YYYY-MM-DD
C21_FirstMatchingBranchPadded == Padded => C21_FirstMatchingBranch

\* a fund that is not QDII, NAVs on file of 2 January and of 8 January only,
\* expected 5 January: the NAV of 8 January with the "first available" note
C21_ThreeDaysAfter ==
    /\ resolve.done
    /\ ~resolve.is_qdii
    /\ resolve.expected = <<2024, 1, 5>>
    /\ {r.nav_date : r \in ResolveRows} = {D0, D1Third}
    /\ resolve.nav # <<>>
    /\ resolve.nav[1].nav_date = D1Third
    /\ resolve.note = NoteFirstAfter(D1Third)


\* ---------------------------------------------------------------- C22
\* the log row a finished clear command wrote
ClearLogRow(i) == CHOOSE l \in ledger.logs : l.id = cmd[i].log_id

\* the command resolved a settlement NAV
ClearResolved(i) == cmd[i].pc = "done" /\ cmd[i].expected # NoDate

\* C22: whatever branch resolved the settlement NAV of a clear / sell
\* command (exact, QDII +1, first available, latest, none), the result came
\* with a non-empty provenance note, and that note is the note field of the
\* position-log row the command stored.
C22_NoteWithEveryResult ==
    \A i \in ClearCmds :
       ClearResolved(i) =>
          /\ cmd[i].note # <<>>
          /\ cmd[i].log_id # 0 => ClearLogRow(i).note = cmd[i].note

\* the exact match: the NAV returned is dated the expected settlement date
ClearExact(i) ==
    cmd[i].nav # <<>> /\ cmd[i].nav[1].nav_date = Isoformat(cmd[i].expected)

\* C22 as it holds: the exact match returns the empty note, every other
\* branch (QDII +1, first available, latest, none) returns a non-empty
\* provenance note, and the note returned is the note field of the
\* position-log row the clear / sell command stored.
C22_NoteUnlessExact ==
    \A i \in ClearCmds :
       ClearResolved(i) =>
          /\ cmd[i].note = <<>> <=> ClearExact(i)
          /\ cmd[i].log_id # 0 => ClearLogRow(i).note = cmd[i].note

\* a command settled on a later NAV and stored the note of that in its row
C22_Witness ==
    \E i \in ClearCmds :
       /\ ClearResolved(i)
       /\ cmd[i].log_id # 0
       /\ cmd[i].note = NoteFirstAfter(D1)
       /\ ClearLogRow(i).note = NoteFirstAfter(D1)

\* ---------------------------------------------------------------- C30
\* C30: every position-log row a clear / sell command wrote with action
\* "clear" has shares_after = 0 and belongs to a deleted position, and every
\* row it wrote with action "sell" has shares_after > 0, whatever other
\* command of the same user ran while the command awaited its network calls.
C30_ActionMatchesRemainder ==
    \A i \in ClearCmds :
       cmd[i].log_id # 0 =>
          /\ ClearLogRow(i).action = "clear" =>
                ClearLogRow(i).shares_after = 0 /\ cmd[i].position_deleted
          /\ ClearLogRow(i).action = "sell" => ClearLogRow(i).shares_after > 0

\* ---------------------------------------------------------------- C23
\* the planner is inside _is_workday
Classifying(p) == task[p].pc \in {"classify", "backoff"}

\* the step in which _is_workday returns to _plan_today
Classified(p) ==
    task[p].pc = "classify" /\ task'[p].pc \in {"start_it", "stop_it"}

\* day 0 is a Monday
MondayToFriday(d) == d % 7 \in 0 .. 4

\* what _is_workday returned: _plan_today starts the intraday loop on TRUE
ReturnedWorkday(p) == task'[p].pc = "start_it"

\* C23: a trading-day classification always comes to an end, every call of
\* the service being answered or timing out.  It makes at most
\* HOLIDAY_MAX_RETRIES calls of the service; a failed call before the last is
\* followed by a pause of as many seconds as calls were made; the call ends
\* only by returning a boolean (or by the task being cancelled), which is
\* the service's answer at the first call that succeeds and the weekday rule
\* (Monday to Friday) after the last call failed.
C23_ClassifyBounded ==
    /\ \A p \in Planners : Classifying(p) ~> ~Classifying(p)
    /\ [][\A p \in Planners :
            /\ Classifying(p) => task[p].att \in 1 .. HOLIDAY_MAX_RETRIES
            /\ task[p].pc = "classify" =>
                  task'[p].pc \in {"classify", "backoff", "start_it", "stop_it",
                                   "done"}
            /\ task[p].pc = "classify" /\ task'[p].pc = "done" => task[p].cancel
            /\ task[p].pc = "classify" /\ task'[p].pc = "backoff" =>
                  /\ task'[p].reply = "fail"
                  /\ task[p].att < HOLIDAY_MAX_RETRIES
                  /\ task'[p].nap = task[p].att
                  /\ task'[p].att = task[p].att
            /\ task[p].pc = "backoff" /\ task'[p].pc = "classify" =>
                  task'[p].att = task[p].att + 1
            /\ Classified(p) =>
                  IF task'[p].reply = "fail"
                  THEN /\ task[p].att = HOLIDAY_MAX_RETRIES
                       /\ ReturnedWorkday(p) = MondayToFriday(task[p].date)
                  ELSE ReturnedWorkday(p) = (task'[p].reply = "workday")
         ]_vars

\* the service failed HOLIDAY_MAX_RETRIES times on a Saturday: a holiday by
\* the weekday rule
C23_Witness ==
    \E p \in Planners :
       /\ task[p].pc = "stop_it"
       /\ task[p].reply = "fail"
       /\ ~MondayToFriday(task[p].date)

\* ---------------------------------------------------------------- C26
\* the window of the loop's day has closed, or the day is over
WindowOver(i) ==
    day # task[i].date \/ Now > Instant(task[i].date, WinEnd)

\* the loop of task i is running
Looping(i) == task[i].pc \notin {"none", "done"}

PlannedAndAsleep(d) ==
    /\ day = d
    /\ task[Stopper].pc = "none"
    /\ Alive(daily_task)
    /\ task[daily_task].pc = "sleep" /\ task[daily_task].wake = d
    /\ \A p \in Planners : Alive(p) => p = daily_task
    /\ workday_cache[d] = "workday"
    /\ CalcNextIntradayTrigger(Now, Instant(d, WinStart), Instant(d, WinEnd),
                               Interval) # NoTime

\* C29: when the planner of a running scheduler has planned a workday whose
\* intraday window has not closed and has gone to sleep until the next day
\* (as the planner created by ensure_task() after a stop() on the same day
\* does), the intraday loop of that day is running.
C29_RestartResumes ==
    \A d \in Days :
       PlannedAndAsleep(d) => \E i \in Intradays : Looping(i) /\ task[i].date = d

\* ---------------------------------------------------------------- C24
\* the day has been classified, by the service or by the weekday rule
IsClassified(d) == workday_cache[d] \in {"workday", "holiday"}

\* C24: once a date has been classified its cached result stays as it is
\* for the rest of the process, and no later classification of the date
\* calls the service: no planner begins an attempt for a classified date.
C24_CachedForLife ==
    [][\A d \in Days :
         IsClassified(d) =>
            /\ workday_cache'[d] = workday_cache[d]
            /\ \A p \in Planners :
                  task'[p].pc = "classify" /\ task'[p].date = d =>
                     task[p].pc \in {"classify", "backoff"} /\ task[p].date = d
      ]_vars

\* ---------------------------------------------------------------- C25
\* the instants start + k*interval at or after now and not after end
Grid(now, start, end, interval) ==
    {t \in 0 .. MaxNow :
        /\ t >= now /\ t <= end
        /\ \E k \in 0 .. MaxNow : t = start + k * interval}

\* the first instant start + k*interval at or after now, inside the window
\* or not
NextGridPoint(now, start, interval) ==
    CHOOSE t \in 0 .. (2 * MaxNow + MaxInterval) :
        /\ t >= now
        /\ \E k \in 0 .. (2 * MaxNow) : t = start + k * interval
        /\ \A k \in 0 .. (2 * MaxNow) :
              start + k * interval >= now => t <= start + k * interval

\* C25: the trigger calculated for a reading of the clock is the smallest
\* instant start + k*interval (k >= 0) that is at or after now and not after
\* end; there is none exactly when now is after end or the next grid point
\* is after end; a loop started inside the window gets a trigger less than
\* one interval away, on the grid, and not now + interval.
C25_NextGridPoint ==
    plan.op = "trigger" =>
       LET grid == Grid(plan.now, plan.start, plan.end, plan.interval)
       IN /\ IF grid = {} THEN plan.trigger = NoTime
             ELSE /\ plan.trigger \in grid
                  /\ \A t \in grid : plan.trigger <= t
          /\ plan.trigger = NoTime <=>
                \/ plan.now > plan.end
                \/ NextGridPoint(plan.now, plan.start, plan.interval) > plan.end
          /\ plan.now > plan.start /\ plan.trigger # NoTime =>
                plan.trigger < plan.now + plan.interval

\* a loop started late, between two grid points, is given the next grid
\* point, which is nearer than one interval
C25_Witness ==
    /\ plan.op = "trigger"
    /\ plan.interval = 3
    /\ plan.start = 1 /\ plan.now = 3 /\ plan.end = 5
    /\ plan.trigger = 4

\* ---------------------------------------------------------------- C27
\* the days from the latest stored date to today
DaysSinceLatest == Ordinal(plan.today) - Ordinal(plan.latest_day)

\* C27: the number of days to fetch is the default window (120 when the
\* constructor is given none) when force_full is set, when there is no
\* stored latest date, when it is no date or when it is after today;
\* otherwise it is max(buffer, min(daysSinceLatest + buffer, maxWindow)),
\* hence at least the buffer, the gap plus the buffer when that is within
\* maxWindow, and at most max(buffer, maxWindow).
C27_FetchDays ==
    plan.op = "fetch_days" =>
       /\ plan.given[1] = 0 => plan.default_fetch_days = 120
       /\ IF \/ plan.force_full
             \/ plan.latest_day = NoDate
             \/ DaysSinceLatest < 0
          THEN plan.days = plan.default_fetch_days
          ELSE /\ plan.days = Max(plan.fetch_buffer_days,
                                  Min(DaysSinceLatest + plan.fetch_buffer_days,
                                      plan.max_fetch_days))
               /\ plan.days >= plan.fetch_buffer_days
               /\ DaysSinceLatest + plan.fetch_buffer_days <= plan.max_fetch_days
                     => plan.days = DaysSinceLatest + plan.fetch_buffer_days
               /\ plan.days <= Max(plan.fetch_buffer_days, plan.max_fetch_days)

\* the gap plus the buffer is more than the largest window: a latest date
\* stored with a time, 371 days ago, and the default windows
C27_Witness ==
    /\ plan.op = "fetch_days"
    /\ ~plan.force_full
    /\ plan.latest = D1Time
    /\ plan.given = <<0, 0, 0>>
    /\ DaysSinceLatest = 371
    /\ plan.days = 365

\* ---------------------------------------------------------------- C28
\* the day of the year 2024 a date text stands for, <<0, 0>> if it is none
DayOfText(text) ==
    IF text = <<>> THEN <<0, 0>> ELSE Strptime(NormalizeNavDateText(text))

\* one day is before the other
DayBefore(a, b) == a[1] < b[1] \/ (a[1] = b[1] /\ a[2] < b[2])

\* a bar with a date and a positive close
ValidBar(item) ==
    /\ DayOfText(item.date) # <<0, 0>>
    /\ item.close.k = "num" /\ item.close.v > 0

\* the valid bars of a history dated after a day, the last of each day
NewBars(items, latest_day) ==
    {i \in DOMAIN items :
        /\ ValidBar(items[i])
        /\ DayBefore(latest_day, DayOfText(items[i].date))
        /\ \A j \in DOMAIN items :
              j > i /\ ValidBar(items[j]) =>
                 DayOfText(items[j].date) # DayOfText(items[i].date)}

\* the rows of the fund that a step wrote: new ones and changed ones
RowsWritten(code) == {r \in store'.rows \ store.rows : r.code = code}

\* C28: in a turn of a pass without force_full that fetched a history, the
\* rows written for the fund are exactly the valid bars dated strictly after
\* the latest date stored before the turn, one row for a day, with the close
\* of the last bar of that day; no row dated on or before the latest stored
\* date is inserted or overwritten.
C28_OnlyNewerBars ==
    [][AtFund /\ IsFundCode(ThisCode) /\ ~pass.force_full
         /\ pass'.idx = pass.idx + 1 /\ pass'.hist.k = "list" =>
          LET latest == GetLatestNavDate(store, nav_partition_table_cache,
                                         ThisCode).date
              latest_day == DayOfText(latest)
              items == pass'.hist.items
              bars == NewBars(items, latest_day)
              rows == RowsWritten(ThisCode)
          IN /\ \A r \in rows : DayBefore(latest_day, DayOfText(r.nav_date))
             /\ \A r \in rows : \E i \in bars :
                   /\ DayOfText(items[i].date) = DayOfText(r.nav_date)
                   /\ r.unit_nav = items[i].close.v
             /\ \A i \in bars : \E r \in rows :
                   DayOfText(items[i].date) = DayOfText(r.nav_date)
             /\ Cardinality(rows) = Cardinality(bars)
      ]_vars

====
